---- MODULE Spec2Model ----
(***************************************************************************)
(* Breakout: arena allocator, entity store, collision registry, draw       *)
(* buffer and the gameplay state machine, as state machines.               *)
(*                                                                         *)
(*   SpecArena  one MemoryArena driven through Init / PushSize / Clear      *)
(*   SpecStore  one GameObjectManager driven through Create / Destroy       *)
(*   Spec       the game: Initialize, then the main loop Update ; Draw      *)
(***************************************************************************)
EXTENDS Integers, Sequences, FiniteSets, TLC

VARIABLES
    arena,      \* SpecArena: the MemoryArena under test {capacity, used}
    regions,    \* SpecArena: regions handed out since Init or the last Clear
    goMgr,      \* GameObjectManager, with the GameObject headers of its arena
    freed,      \* history: entities destroyed and not yet recycled, latest first
    gs,         \* g_gameState without goMgr
    dm,         \* the DrawManager singleton
    clock,      \* the wall clock GetTime() reads
    pc,         \* where the driving program stands
    aborted,    \* an assertion failed: the process is gone
    last        \* history: the operation that produced this state

vars == <<arena, regions, goMgr, freed, gs, dm, clock, pc, aborted, last>>

----------------------------------------------------------------------------
(* Bounds of the model *)

\* size_t arithmetic is modular; 2^64 is scaled down to 2^30
SizeTMod == 1073741824
\* std::numeric_limits<u32>::max(), scaled down
U32Max == 6
\* SpecStore: entity headers the driver allocates
MaxSlots == 3
\* SpecStore: components the driver adds to one entity
MaxComponents == 1
\* SpecArena: PushSize calls between two Clear calls
MaxPushes == 4
\* SpecArena: largest capacity handed to Init
MaxCapacity == 6

NULL == 0

Range(s) == { s[i] : i \in 1..Len(s) }

RECURSIVE SumSizes(_)
SumSizes(s) == IF s = <<>> THEN 0 ELSE Head(s).size + SumSizes(Tail(s))

Last(s) == s[Len(s)]

----------------------------------------------------------------------------
(* MemoryArena *)

\* a default-constructed arena
MemoryArena == [capacity |-> 0, used |-> 0]

ArenaInit(a, the_capacity) == [a EXCEPT !.capacity = the_capacity]

\* the value of the size_t expression used + size
SizeAdd(x, y) == (x + y) % SizeTMod

PushSize_OffByOne(a, size) ==
    IF SizeAdd(a.used, size) <= a.capacity
    THEN [ok |-> TRUE, result |-> a.used,
          arena |-> [a EXCEPT !.used = SizeAdd(SizeAdd(a.used, size), 1)]]
    ELSE [ok |-> FALSE, result |-> 0, arena |-> a]

\* ok = FALSE: the assertion failed; result: offset of the region from base
PushSize(a, size) ==
    IF SizeAdd(a.used, size) <= a.capacity
    THEN [ok |-> TRUE, result |-> a.used,
          arena |-> [a EXCEPT !.used = SizeAdd(a.used, size)]]
    ELSE [ok |-> FALSE, result |-> 0, arena |-> a]

ArenaClear(a) == [a EXCEPT !.used = 0]

----------------------------------------------------------------------------
(* GameObject *)

\* sizeof(GameObject), sizeof(a component) on an LP64 build
SizeofGameObject == 72
SizeofComponent == 72
GameObjectCapacity == 1024

\* GameObject(): the default member initialisers
NewGameObject ==
    [m_id |-> 0, m_memory |-> FALSE, m_next |-> NULL,
     m_arena |-> MemoryArena, m_components |-> <<>>]

GameObjectInit(o) ==
    [o EXCEPT !.m_memory = TRUE,
              !.m_arena = ArenaInit(o.m_arena, GameObjectCapacity)]

GameObjectClear_KeepComponents(o) ==
    [o EXCEPT !.m_id = 0, !.m_next = NULL]

GameObjectClear(o) ==
    [o EXCEPT !.m_id = 0, !.m_next = NULL,
              !.m_arena = ArenaClear(o.m_arena),
              !.m_components = <<>>]

\* OnDestroy is the empty default for every component of the game
GameObjectDestroy(o) ==
    GameObjectClear([o EXCEPT !.m_memory = FALSE])

----------------------------------------------------------------------------
(* GameObjectManager.  An entity is named by the slot of its header in the   *)
(* manager's arena: slot s is the header at offset (s-1) * sizeof.           *)

StoreCapacity == 1024 * 1024

NewGameObjectManager ==
    [m_genId |-> 0, m_firstFree |-> NULL, m_arena |-> MemoryArena,
     m_gos |-> <<>>, heap |-> <<>>]

GameObjectManagerInit(m) ==
    [m EXCEPT !.m_arena = ArenaInit(m.m_arena, StoreCapacity)]

RemoveByIndex_PopOnly(data, index) == SubSeq(data, 1, Len(data) - 1)

\* 0-based index into a vector modelled as a 1-based sequence
RemoveByIndex(data, index) ==
    LET moved == [data EXCEPT ![index + 1] = Last(data)]
    IN  SubSeq(moved, 1, Len(data) - 1)

GetIndex_First(m, go) == 0

GetIndex(m, go) ==
    LET hits == { i \in 1..Len(m.m_gos) :
                    m.heap[m.m_gos[i]].m_id = m.heap[go].m_id }
    IN  IF hits = {} THEN 0
        ELSE (CHOOSE i \in hits : \A j \in hits : i <= j) - 1

NextGenId_Stuck(id) == id

\* u32 addition: the values are 0..U32Max
U32Add(a, b) == (a + b) % (U32Max + 1)

\* m_genId++
NextGenId(id) == U32Add(id, 1)

IdAvailable_Always(id) == TRUE

\* assert(m_genId + 1 < std::numeric_limits<u32>::max())
IdAvailable(id) == U32Add(id, 1) < U32Max

\* ok = FALSE: an assertion failed (arena full, or the id counter at its limit)
Create(m) ==
    LET reuse == m.m_firstFree # NULL
        push  == PushSize(m.m_arena, SizeofGameObject)
        go    == IF reuse THEN m.m_firstFree
                 ELSE (push.result \div SizeofGameObject) + 1
        h1    == IF reuse
                 THEN [m.heap EXCEPT ![go] = GameObjectClear(m.heap[go])]
                 ELSE Append(m.heap, GameObjectInit(NewGameObject))
    IN  IF (~reuse /\ ~push.ok) \/ ~IdAvailable(m.m_genId)
        THEN [ok |-> FALSE, go |-> NULL, mgr |-> m]
        ELSE [ok |-> TRUE, go |-> go,
              mgr |-> [m EXCEPT
                         !.m_firstFree = IF reuse THEN m.heap[go].m_next ELSE NULL,
                         !.m_arena = IF reuse THEN m.m_arena ELSE push.arena,
                         !.heap = [h1 EXCEPT ![go].m_id = m.m_genId],
                         !.m_genId = NextGenId(m.m_genId),
                         !.m_gos = Append(m.m_gos, go)]]

\* GameObjectManager::Destroy(GameObject *), on a non-empty live list
DestroyGo_NoLink(m, go) ==
    [m EXCEPT !.m_firstFree = go,
              !.m_gos = RemoveByIndex(m.m_gos, GetIndex(m, go))]

DestroyGo(m, go) ==
    [m EXCEPT !.heap = [m.heap EXCEPT ![go].m_next = m.m_firstFree],
              !.m_firstFree = go,
              !.m_gos = RemoveByIndex(m.m_gos, GetIndex(m, go))]

\* the loop of GameObjectManager::Destroy() over m_gos[i..]
RECURSIVE DestroyLoop(_, _)
DestroyLoop(m, i) ==
    IF i > Len(m.m_gos) THEN m
    ELSE LET go == m.m_gos[i]
             linked == [m.heap[go] EXCEPT !.m_next = m.m_firstFree]
         IN  DestroyLoop([m EXCEPT !.heap = [m.heap EXCEPT
                                               ![go] = GameObjectDestroy(linked)],
                                   !.m_firstFree = go],
                         i + 1)

\* GameObjectManager::Destroy(): clearing the arena gives its headers up
DestroyAll(m) ==
    [DestroyLoop(m, 1) EXCEPT !.m_genId = 0, !.m_firstFree = NULL,
                              !.m_gos = <<>>,
                              !.m_arena = ArenaClear(m.m_arena),
                              !.heap = <<>>]

----------------------------------------------------------------------------
(* Geometry.  Coordinates are whole pixels. *)

Vec(x, y) == [x |-> x, y |-> y]
Rect(x, y, w, h) == [x |-> x, y |-> y, width |-> w, height |-> h]

Clamp(v, lo, hi) == IF v < lo THEN lo ELSE IF v > hi THEN hi ELSE v

\* the square root, rounded up to a whole unit, by bisection over lo..hi:
\* a length compares with a whole number as the exact length does
RECURSIVE SqrtSearch(_, _, _)
SqrtSearch(n, lo, hi) ==
    IF lo >= hi THEN lo
    ELSE LET mid == (lo + hi) \div 2
         IN  IF mid * mid >= n THEN SqrtSearch(n, lo, mid)
             ELSE SqrtSearch(n, mid + 1, hi)

Vector2Length(v) == SqrtSearch(v.x * v.x + v.y * v.y, 0, 4096)

\* AABB {center, halfExtents} against Circle {center, radius}
AABBvsCircle_Strict(aabb, circle) ==
    LET diff == Vec(circle.center.x - aabb.center.x, circle.center.y - aabb.center.y)
        clampedDiff == Vec(Clamp(diff.x, -aabb.halfExtents.x, aabb.halfExtents.x),
                           Clamp(diff.y, -aabb.halfExtents.y, aabb.halfExtents.y))
        closestPoint == Vec(aabb.center.x + clampedDiff.x, aabb.center.y + clampedDiff.y)
        distToClosest == Vec(closestPoint.x - circle.center.x,
                             closestPoint.y - circle.center.y)
        diffToClosest == Vector2Length(distToClosest)
    IN  [diff |-> distToClosest,
         penetration |-> circle.radius - diffToClosest,
         collides |-> diffToClosest < circle.radius]

AABBvsCircle(aabb, circle) ==
    LET diff == Vec(circle.center.x - aabb.center.x, circle.center.y - aabb.center.y)
        clampedDiff == Vec(Clamp(diff.x, -aabb.halfExtents.x, aabb.halfExtents.x),
                           Clamp(diff.y, -aabb.halfExtents.y, aabb.halfExtents.y))
        closestPoint == Vec(aabb.center.x + clampedDiff.x, aabb.center.y + clampedDiff.y)
        distToClosest == Vec(closestPoint.x - circle.center.x,
                             closestPoint.y - circle.center.y)
        diffToClosest == Vector2Length(distToClosest)
    IN  [diff |-> distToClosest,
         penetration |-> circle.radius - diffToClosest,
         collides |-> diffToClosest <= circle.radius]

----------------------------------------------------------------------------
(* The game's global state *)

ScreenWidth == 1920
ScreenHeight == 1080

\* g_gameState.worldDim as Initialize sets it
worldDim == Rect(-(ScreenWidth \div 2), -(ScreenHeight \div 2),
                 ScreenWidth \div 2, ScreenHeight \div 2)

GAME_RESET_DIFF == 2

PLAY == 0
QUIT == 1

\* Menu after InitStartMenu: options = <<PLAY, QUIT>>, one view per option
MenuOptions == <<PLAY, QUIT>>

NoMap == [loaded |-> FALSE, m_width |-> 0, m_height |-> 0, m_blocksNum |-> 0,
          m_tileSize |-> Vec(0, 0), m_origin |-> Vec(0, 0)]

NoRecord == [textureItems |-> <<>>, fontItems |-> <<>>]

\* zero-initialised static storage; GameplayState(0) is RunGame
StaticGameState ==
    [gameplayState |-> "RunGame",
     menu |-> [cursor |-> 0, selectedOption |-> 0],
     collisionMgr |-> [m_balls |-> <<>>, m_blocks |-> <<>>],
     map |-> NoMap, player |-> NULL, ball |-> NULL, hitScore |-> 0,
     recordedDrawings |-> NoRecord, resetTimer |-> 0]

NewDrawManager == [m_textureItems |-> <<>>, m_fontItems |-> <<>>]

\* what one handler did, for the history variable last
\* ticked: the ids of the entities Tick has visited, in order; passAt: how many
\* that were when the collision pass began, -1 while there has been none
NoEvents == [fell |-> FALSE, blockHits |-> 0, paddleHits |-> 0, ticked |-> <<>>,
             launched |-> FALSE, reset |-> FALSE, exitRequested |-> FALSE,
             reused |-> FALSE, passAt |-> -1]

\* the state the operations of one handler thread through: now is the latest
\* value GetTime() returned, ok = FALSE once an assertion has failed
World(m, g, d, t) ==
    [mgr |-> m, gs |-> g, dm |-> d, now |-> t, ok |-> TRUE, ev |-> NoEvents]

----------------------------------------------------------------------------
(* Components *)

Component(name, pos, size) ==
    [name |-> name, m_go |-> NULL, m_position |-> pos, m_size |-> size,
     m_state |-> "-", m_radius |-> 0]

PlayerComponent(x, y, w, h) == Component("PlayerComponent", Vec(x, y), Vec(w, h))

BallComponent(x, y, w, h, r) ==
    [Component("BallComponent", Vec(x, y), Vec(w, h))
        EXCEPT !.m_state = "Attached", !.m_radius = r]

BlockComponent(x, y, w, h) == Component("BlockComponent", Vec(x, y), Vec(w, h))

\* GetCenter of a player or block component
BoxCenter(c) == Vec(c.m_position.x + c.m_size.x \div 2, c.m_position.y + c.m_size.y \div 2)
\* BallComponent::GetCenter
BallCenter(c) == Vec(c.m_position.x + c.m_radius, c.m_position.y + c.m_radius)

\* index in m_components of the first component called name, 0 for nullptr
GetComponent(o, name) ==
    LET hits == { i \in 1..Len(o.m_components) : o.m_components[i].name = name }
    IN  IF hits = {} THEN 0 ELSE CHOOSE i \in hits : \A j \in hits : i <= j

SetComponent(w, go, i, c) ==
    [w EXCEPT !.mgr.heap[go].m_components[i] = c]

----------------------------------------------------------------------------
(* CollisionManager *)

AddBlock(cm, go, bounds) ==
    [cm EXCEPT !.m_blocks = Append(@, [go |-> go, bounds |-> bounds])]

AddBall_Skip(cm, go) == cm

AddBall(cm, go) ==
    [cm EXCEPT !.m_balls = Append(@, [go |-> go, bounds |-> Rect(0, 0, 0, 0)])]

RemoveBlock_Keep(cm, heap, go) == cm

RemoveBlock(cm, heap, go) ==
    IF cm.m_blocks = <<>> THEN cm
    ELSE LET hits == { i \in 1..Len(cm.m_blocks) :
                         heap[go].m_id = heap[cm.m_blocks[i].go].m_id }
             destroyIdx == IF hits = {} THEN 0
                           ELSE (CHOOSE i \in hits : \A j \in hits : i <= j) - 1
         IN  [cm EXCEPT !.m_blocks = RemoveByIndex(@, destroyIdx)]

CollisionClear(cm) == [cm EXCEPT !.m_balls = <<>>, !.m_blocks = <<>>]

----------------------------------------------------------------------------
(* Component hooks and GameObject::AddComponent(args...) *)

\* T::Init(); only the block's has an effect beyond acquiring a texture
ComponentInit(w, c) ==
    IF c.name = "BlockComponent"
    THEN LET center == BoxCenter(c)
             halfSize == Vec(c.m_size.x \div 2, c.m_size.y \div 2)
         IN  [w EXCEPT !.gs.collisionMgr =
                  AddBlock(@, c.m_go, Rect(center.x, center.y, halfSize.x, halfSize.y))]
    ELSE w

AddComponent(w, go, c) ==
    IF ~w.ok THEN w
    ELSE LET push == PushSize(w.mgr.heap[go].m_arena, SizeofComponent)
             comp == [c EXCEPT !.m_go = go]
         IN  IF ~push.ok THEN [w EXCEPT !.ok = FALSE]
             ELSE LET w1 == [w EXCEPT !.mgr.heap[go].m_arena = push.arena]
                      w2 == ComponentInit(w1, comp)
                  IN  [w2 EXCEPT !.mgr.heap[go].m_components = Append(@, comp)]

\* the overload without arguments: the init hook runs on the component as it
\* was constructed, m_go = nullptr, and SetOwner follows
AddComponentNoArgs(w, go, c) ==
    IF ~w.ok THEN w
    ELSE LET push == PushSize(w.mgr.heap[go].m_arena, SizeofComponent)
         IN  IF ~push.ok THEN [w EXCEPT !.ok = FALSE]
             ELSE LET w1 == [w EXCEPT !.mgr.heap[go].m_arena = push.arena]
                      w2 == ComponentInit(w1, [c EXCEPT !.m_go = NULL])
                  IN  [w2 EXCEPT !.mgr.heap[go].m_components =
                                     Append(@, [c EXCEPT !.m_go = go])]

\* what a Create() that returned c leaves behind; go = NULL when it aborted
Created(w, c) ==
    IF c.ok THEN [w |-> [w EXCEPT !.mgr = c.mgr], go |-> c.go]
    ELSE [w |-> [w EXCEPT !.ok = FALSE], go |-> NULL]

\* goMgr.Create() inside a handler
WorldCreate(w) ==
    IF ~w.ok THEN [w |-> w, go |-> NULL] ELSE Created(w, Create(w.mgr))

\* cr.go->AddComponent<T>(...) on the entity a Create() returned
Equipped(cr, c) == [w |-> AddComponent(cr.w, cr.go, c), go |-> cr.go]

\* goMgr.Create() followed by AddComponent<T>(...) on the new entity
Spawn(w, c) == Equipped(WorldCreate(w), c)

----------------------------------------------------------------------------
(* Map and scene *)

\* the tile layout of InitScene, row-major, 9 x 3
TILES == << 0, 1, 1, 0, 0, 0, 1, 1, 0,
            0, 1, 1, 1, 1, 1, 1, 1, 0,
            1, 1, 1, 1, 0, 0, 1, 1, 0 >>

\* the model loads the first MapWidth columns of the first row of TILES
MapWidth == 6

TilePadding == 5

NewMap(origin, tileSize, width, height) ==
    [loaded |-> TRUE, m_width |-> width, m_height |-> height, m_blocksNum |-> 0,
     m_tileSize |-> tileSize, m_origin |-> origin]

CountBlock_Twice(w) == IF w.ok THEN [w EXCEPT !.gs.map.m_blocksNum = @ + 2] ELSE w

\* m_blocksNum++
CountBlock(w) == IF w.ok THEN [w EXCEPT !.gs.map.m_blocksNum = @ + 1] ELSE w

\* the loops of Map::Load from tile (x, y) on, row-major; pos = {xoffset, yoffset}
RECURSIVE LoadFrom(_, _, _, _, _)
LoadFrom(w, data, x, y, pos) ==
    LET map == w.gs.map IN
    IF ~w.ok \/ y >= map.m_height THEN w
    ELSE IF x >= map.m_width
    THEN LoadFrom(w, data, 0, y + 1,
                  Vec(map.m_origin.x, pos.y - (map.m_tileSize.y + TilePadding)))
    ELSE LET index == (y * map.m_width) + x
             isTileEmpty == data[index + 1] = 0
             next == Vec(pos.x + map.m_tileSize.x + TilePadding, pos.y)
         IN  IF isTileEmpty THEN LoadFrom(w, data, x + 1, y, next)
             ELSE LoadFrom(CountBlock(Spawn(w, BlockComponent(pos.x, pos.y,
                                         map.m_tileSize.x, map.m_tileSize.y)).w),
                           data, x + 1, y, next)

MapLoad(w, data) == LoadFrom(w, data, 0, 0, w.gs.map.m_origin)

\* g_gameState.player = the entity just made
ScenePlayer(s) == IF s.w.ok THEN [s.w EXCEPT !.gs.player = s.go] ELSE s.w

\* g_gameState.ball = the entity just made
SceneBall(s) == IF s.w.ok THEN [s.w EXCEPT !.gs.ball = s.go] ELSE s.w

\* g_gameState.map = new Map(originMap, {128, 64}, width, height); the layout
\* is cut down to MapWidth x 1 (9 x 3 in the source)
SceneMap(w) ==
    IF w.ok
    THEN [w EXCEPT !.gs.map = NewMap(Vec(worldDim.x + 200, worldDim.y + 400),
                                     Vec(128, 64), MapWidth, 1)]
    ELSE w

InitScene(w) ==
    MapLoad(SceneMap(SceneBall(Spawn(
                ScenePlayer(Spawn(w, PlayerComponent(-16, worldDim.height - 40, 128, 32))),
                BallComponent(0, worldDim.height - 110, 64, 64, 32)))),
            SubSeq(TILES, 1, MapWidth))

DestroyScene_Restart(w) ==
    [w EXCEPT !.mgr = DestroyAll(@),
              !.gs.map = NoMap,
              !.gs.player = NULL,
              !.gs.ball = NULL,
              !.gs.hitScore = 0,
              !.gs.recordedDrawings = NoRecord,
              !.gs.resetTimer = 0,
              !.gs.collisionMgr = CollisionClear(@),
              !.gs.gameplayState = "RunGame"]

DestroyScene_KeepScore(w) ==
    [w EXCEPT !.mgr = DestroyAll(@),
              !.gs.map = NoMap,
              !.gs.player = NULL,
              !.gs.ball = NULL,
              !.gs.recordedDrawings = NoRecord,
              !.gs.resetTimer = 0,
              !.gs.collisionMgr = CollisionClear(@),
              !.gs.gameplayState = "RunMenu"]

DestroyScene(w) ==
    [w EXCEPT !.mgr = DestroyAll(@),
              !.gs.map = NoMap,
              !.gs.player = NULL,
              !.gs.ball = NULL,
              !.gs.hitScore = 0,
              !.gs.recordedDrawings = NoRecord,
              !.gs.resetTimer = 0,
              !.gs.collisionMgr = CollisionClear(@),
              !.gs.gameplayState = "RunMenu"]

\* g_gameState.gameplayState = GameplayState::RunMenu, the last step of Initialize
EnterMenu(w) == IF w.ok THEN [w EXCEPT !.gs.gameplayState = "RunMenu"] ELSE w

\* resources, HUD, camera and the menu's views hold no state the model reads
Initialize(w) == EnterMenu(InitScene([w EXCEPT !.mgr = GameObjectManagerInit(@)]))

----------------------------------------------------------------------------
(* Menu *)

MenuUp_NoWrap(menu) ==
    LET c == IF menu.cursor - 1 < 0 THEN 0 ELSE menu.cursor - 1
    IN  [cursor |-> c, selectedOption |-> MenuOptions[c + 1]]

MenuUp(menu) ==
    LET c == IF menu.cursor - 1 < 0 THEN Len(MenuOptions) - 1 ELSE menu.cursor - 1
    IN  [cursor |-> c, selectedOption |-> MenuOptions[c + 1]]

MenuDown(menu) ==
    LET c == IF menu.cursor + 1 > Len(MenuOptions) - 1 THEN 0 ELSE menu.cursor + 1
    IN  [cursor |-> c, selectedOption |-> MenuOptions[c + 1]]

\* keys: [down, up, enter], each "pressed this frame"
UpdateMenu(w, keys) ==
    LET m1 == IF keys.down THEN MenuDown(w.gs.menu) ELSE w.gs.menu
        m2 == IF keys.up THEN MenuUp(m1) ELSE m1
        st == IF keys.enter
              THEN (IF m2.selectedOption = PLAY THEN "RunGame"
                    ELSE IF m2.selectedOption = QUIT THEN "Quit"
                    ELSE w.gs.gameplayState)
              ELSE w.gs.gameplayState
    IN  [w EXCEPT !.gs.menu = m2, !.gs.gameplayState = st]

----------------------------------------------------------------------------
(* DrawManager *)

DrawItem(type, z_index, tex, text) ==
    [type |-> type, z_index |-> z_index, tex |-> tex, text |-> text]

TextureItem(tex, z_index) == DrawItem("Texture", z_index, tex, "")
FontItem(text) == DrawItem("Font", 0, "", text)

DrawAdd(d, item) ==
    IF item.type = "Texture"
    THEN [d EXCEPT !.m_textureItems = Append(@, item)]
    ELSE [d EXCEPT !.m_fontItems = Append(@, item)]

DrawFlush_TexturesOnly(d) == [d EXCEPT !.m_textureItems = <<>>]

DrawFlush(d) == [d EXCEPT !.m_textureItems = <<>>, !.m_fontItems = <<>>]

DrawRecord_Skip(d, record) == record

DrawRecord(d, record) ==
    [record EXCEPT !.textureItems = @ \o d.m_textureItems,
                   !.fontItems = @ \o d.m_fontItems]

DrawCopy_FontsOnly(d, record) ==
    [d EXCEPT !.m_fontItems = @ \o record.fontItems]

DrawCopy(d, record) ==
    [d EXCEPT !.m_textureItems = @ \o record.textureItems,
              !.m_fontItems = @ \o record.fontItems]

\* the arrangements of the items at positions idx of s, as sequences
RECURSIVE Arrangements(_, _)
Arrangements(s, idx) ==
    IF idx = {} THEN { <<>> }
    ELSE UNION { { <<e>> \o rest :
                     rest \in Arrangements(s, idx \ {CHOOSE i \in idx : s[i] = e}) } :
                 e \in { s[i] : i \in idx } }

\* std::sort by z_index is not stable: every order of the items that is
\* ascending in z_index is a possible outcome
RECURSIVE SortedFrom(_, _)
SortedFrom(s, idx) ==
    IF idx = {} THEN { <<>> }
    ELSE LET zmin == CHOOSE z \in { s[i].z_index : i \in idx } :
                        \A i \in idx : z <= s[i].z_index
             lowest == { i \in idx : s[i].z_index = zmin }
         IN  { a \o b : a \in Arrangements(s, lowest), b \in SortedFrom(s, idx \ lowest) }

SortOutcomes(s) == SortedFrom(s, 1..Len(s))

\* DrawManager::Dispatch with the sort's outcome sorted: the buffer afterwards,
\* and what the renderer was handed
Dispatch(d, sorted) ==
    [dm |-> [d EXCEPT !.m_textureItems = sorted],
     out |-> sorted \o d.m_fontItems]

----------------------------------------------------------------------------
(* Component ticks *)

\* in.px: newPosition.x after the key handling (any offset baseSpeed * dt)
\* in.space: IsKeyPressed(KEY_SPACE)
PlayerTick(w, go, i, in) ==
    LET c == w.mgr.heap[go].m_components[i]
        inside == in.px >= worldDim.x /\ in.px + c.m_size.x <= worldDim.width
        c1 == IF inside THEN [c EXCEPT !.m_position.x = in.px] ELSE c
        w1 == SetComponent(w, go, i, c1)
        bgo == w1.gs.ball
        bi == GetComponent(w1.mgr.heap[bgo], "BallComponent")
        bc == w1.mgr.heap[bgo].m_components[bi]
        \* BallComponent::Launch
        w2 == IF in.space /\ bc.m_state = "Attached"
              THEN [SetComponent(w1, bgo, bi, [bc EXCEPT !.m_state = "Launched"])
                      EXCEPT !.gs.collisionMgr = AddBall(@, bc.m_go),
                             !.ev.launched = TRUE]
              ELSE w1
    IN  [w2 EXCEPT !.dm = DrawAdd(@, TextureItem("paddle", 0))]

BallIsOut_Never(position) == FALSE

\* m_position.y > worldDim.height
BallIsOut(position) == position.y > worldDim.height

\* in.spot: m_position after m_position += m_velocity * dt; the frame time and
\* the velocity are not modelled, the new position is any of BallSpots
BallTick(w, go, i, in) ==
    LET c == w.mgr.heap[go].m_components[i]
        pl == w.gs.player
        pi == GetComponent(w.mgr.heap[pl], "PlayerComponent")
        playerComp == w.mgr.heap[pl].m_components[pi]
        x1 == IF in.spot.x <= worldDim.x THEN worldDim.x
              ELSE IF in.spot.x + c.m_size.x >= worldDim.width
              THEN worldDim.width - c.m_size.x
              ELSE in.spot.x
        y1 == IF in.spot.y <= worldDim.y THEN worldDim.y ELSE in.spot.y
        fell == BallIsOut(Vec(x1, y1))
        w1 == IF pi # 0 /\ c.m_state = "Attached"
              THEN SetComponent(w, go, i,
                       [c EXCEPT !.m_position = Vec(playerComp.m_position.x + 32,
                                                    c.m_position.y)])
              ELSE IF pi # 0 /\ c.m_state = "Launched"
              THEN [SetComponent(w, go, i, [c EXCEPT !.m_position = Vec(x1, y1)])
                      EXCEPT !.gs.gameplayState = IF fell THEN "PreGameOver" ELSE @,
                             !.ev.fell = y1 > worldDim.height]
              ELSE w
    IN  [w1 EXCEPT !.dm = DrawAdd(@, TextureItem("doge", 0))]

BlockTick(w, go, i, in) ==
    [w EXCEPT !.dm = DrawAdd(@, TextureItem("tile", -999))]

ComponentTick(w, go, i, in) ==
    LET name == w.mgr.heap[go].m_components[i].name
    IN  IF name = "PlayerComponent" THEN PlayerTick(w, go, i, in)
        ELSE IF name = "BallComponent" THEN BallTick(w, go, i, in)
        ELSE BlockTick(w, go, i, in)

\* GameObject::Tick from component i on
RECURSIVE GameObjectTick(_, _, _, _)
GameObjectTick(w, go, i, in) ==
    IF i > Len(w.mgr.heap[go].m_components) THEN w
    ELSE GameObjectTick(ComponentTick(w, go, i, in), go, i + 1, in)

\* GameObjectManager::Tick from m_gos[k] on
RECURSIVE ManagerTick_Backwards(_, _, _)
ManagerTick_Backwards(w, k, in) ==
    IF k > Len(w.mgr.m_gos) THEN w
    ELSE ManagerTick_Backwards(
             [GameObjectTick(w, w.mgr.m_gos[Len(w.mgr.m_gos) - k + 1], 1, in)
                 EXCEPT !.ev.ticked =
                     Append(@, w.mgr.heap[w.mgr.m_gos[Len(w.mgr.m_gos) - k + 1]].m_id)],
             k + 1, in)

RECURSIVE ManagerTick(_, _, _)
ManagerTick(w, k, in) ==
    IF k > Len(w.mgr.m_gos) THEN w
    ELSE ManagerTick([GameObjectTick(w, w.mgr.m_gos[k], 1, in)
                         EXCEPT !.ev.ticked = Append(@, w.mgr.heap[w.mgr.m_gos[k]].m_id)],
                     k + 1, in)

----------------------------------------------------------------------------
(* Collision callbacks and CollisionManager::Tick *)

\* the face is the first of top, bottom, right, left whose axis has a positive
\* dot product with the normalised manifold.diff
CollisionFace_TopAtZero(manifold) ==
    IF manifold.diff.y >= 0 THEN "Top"
    ELSE IF manifold.diff.y < 0 THEN "Bottom"
    ELSE IF manifold.diff.x > 0 THEN "Right"
    ELSE "Left"

CollisionFace(manifold) ==
    IF manifold.diff.y > 0 THEN "Top"
    ELSE IF manifold.diff.y < 0 THEN "Bottom"
    ELSE IF manifold.diff.x > 0 THEN "Right"
    ELSE IF manifold.diff.x < 0 THEN "Left"
    ELSE "None"

\* the position part of BallComponent::ResolveBlockCollision
ResolveBlockCollision(c, manifold) ==
    LET face == CollisionFace(manifold)
    IN  IF face = "Top" THEN [c EXCEPT !.m_position.y = @ - manifold.penetration]
        ELSE IF face = "Bottom" THEN [c EXCEPT !.m_position.y = @ + manifold.penetration]
        ELSE IF face = "Left" THEN [c EXCEPT !.m_position.x = @ - manifold.penetration]
        ELSE IF face = "Right" THEN [c EXCEPT !.m_position.x = @ + manifold.penetration]
        ELSE c

\* BallComponent::OnCollision; ResolvePlayerCollision only turns the velocity
BallOnCollision_ScorePaddle(w, ballGo, manifold, collidedObject) ==
    IF GetComponent(w.mgr.heap[collidedObject], "PlayerComponent") # 0
    THEN [w EXCEPT !.ev.paddleHits = @ + 1, !.gs.hitScore = @ + 1]
    ELSE LET bi == GetComponent(w.mgr.heap[ballGo], "BallComponent")
             bc == w.mgr.heap[ballGo].m_components[bi]
         IN  [SetComponent(w, ballGo, bi, ResolveBlockCollision(bc, manifold))
                 EXCEPT !.gs.hitScore = @ + 1,
                        !.ev.blockHits = @ + 1]

BallOnCollision(w, ballGo, manifold, collidedObject) ==
    IF GetComponent(w.mgr.heap[collidedObject], "PlayerComponent") # 0
    THEN [w EXCEPT !.ev.paddleHits = @ + 1]
    ELSE LET bi == GetComponent(w.mgr.heap[ballGo], "BallComponent")
             bc == w.mgr.heap[ballGo].m_components[bi]
         IN  [SetComponent(w, ballGo, bi, ResolveBlockCollision(bc, manifold))
                 EXCEPT !.gs.hitScore = @ + 1,
                        !.ev.blockHits = @ + 1]

\* BlockComponent::OnCollision
BlockOnCollision(w, blockGo, manifold, go) ==
    LET ci == GetComponent(w.mgr.heap[blockGo], "BlockComponent")
        m_go == w.mgr.heap[blockGo].m_components[ci].m_go
    IN  [w EXCEPT !.gs.collisionMgr = RemoveBlock(@, w.mgr.heap, m_go)]

\* 1st test, from m_balls[k] on: ball against the paddle
RECURSIVE PlayerPass(_, _)
PlayerPass(w, k) ==
    IF k > Len(w.gs.collisionMgr.m_balls) THEN w
    ELSE LET pl == w.gs.player
             pi == GetComponent(w.mgr.heap[pl], "PlayerComponent")
             playerComp == w.mgr.heap[pl].m_components[pi]
             aabbPlayer == [center |-> BoxCenter(playerComp),
                            halfExtents |-> Vec(playerComp.m_size.x \div 2,
                                                playerComp.m_size.y \div 2)]
             ball == w.gs.collisionMgr.m_balls[k]
             bi == GetComponent(w.mgr.heap[ball.go], "BallComponent")
             ballComp == w.mgr.heap[ball.go].m_components[bi]
             center == BallCenter(ballComp)
             radius == ballComp.m_radius
             w1 == [w EXCEPT !.gs.collisionMgr.m_balls[k].bounds =
                                  Rect(center.x, center.y, radius, radius)]
             manifold == AABBvsCircle(aabbPlayer, [center |-> center, radius |-> radius])
             w2 == IF manifold.collides
                   THEN BallOnCollision(w1, ball.go, manifold, pl)
                   ELSE w1
         IN  PlayerPass(w2, k + 1)

RECURSIVE BlockScan_NoBreak(_, _, _)
BlockScan_NoBreak(w, ball, j) ==
    IF j > Len(w.gs.collisionMgr.m_blocks) THEN w
    ELSE LET block == w.gs.collisionMgr.m_blocks[j]
             circle == [center |-> Vec(ball.bounds.x, ball.bounds.y),
                        radius |-> ball.bounds.width]
             aabb == [center |-> Vec(block.bounds.x, block.bounds.y),
                      halfExtents |-> Vec(block.bounds.width, block.bounds.height)]
             manifold == AABBvsCircle(aabb, circle)
         IN  IF manifold.collides
             THEN LET w1 == BallOnCollision(w, ball.go, manifold, block.go)
                      w2 == BlockOnCollision(w1, block.go, manifold, ball.go)
                  IN  BlockScan_NoBreak([w2 EXCEPT !.mgr = DestroyGo(@, block.go)], ball, j)
             ELSE BlockScan_NoBreak(w, ball, j + 1)

\* the inner loop of the 2nd test: ball against m_blocks[j..], up to the first hit
RECURSIVE BlockScan(_, _, _)
BlockScan(w, ball, j) ==
    IF j > Len(w.gs.collisionMgr.m_blocks) THEN w
    ELSE LET block == w.gs.collisionMgr.m_blocks[j]
             circle == [center |-> Vec(ball.bounds.x, ball.bounds.y),
                        radius |-> ball.bounds.width]
             aabb == [center |-> Vec(block.bounds.x, block.bounds.y),
                      halfExtents |-> Vec(block.bounds.width, block.bounds.height)]
             manifold == AABBvsCircle(aabb, circle)
         IN  IF manifold.collides
             THEN LET w1 == BallOnCollision(w, ball.go, manifold, block.go)
                      w2 == BlockOnCollision(w1, block.go, manifold, ball.go)
                  IN  [w2 EXCEPT !.mgr = DestroyGo(@, block.go)]
             ELSE BlockScan(w, ball, j + 1)

\* 2nd test, from m_balls[k] on
RECURSIVE BlockPass(_, _)
BlockPass(w, k) ==
    IF k > Len(w.gs.collisionMgr.m_balls) THEN w
    ELSE BlockPass(BlockScan(w, w.gs.collisionMgr.m_balls[k], 1), k + 1)

CollisionTick(w) ==
    LET pi == GetComponent(w.mgr.heap[w.gs.player], "PlayerComponent")
        w1 == IF pi # 0 THEN PlayerPass(w, 1) ELSE w
    IN  BlockPass([w1 EXCEPT !.ev.passAt = Len(w.ev.ticked)], 1)

----------------------------------------------------------------------------
(* Update *)

GameStates == {"RunGame", "PreGameOver", "PreGameWin", "GameOver", "GameWin"}

\* GetTime(): the clock has moved on to t
GetTime(w, t) == [w EXCEPT !.now = t]

ResetScene_Never(w) == w

\* DestroyScene(); InitScene();
ResetScene(w) == InitScene([DestroyScene(w) EXCEPT !.ev.reset = TRUE])

WinCondition_AnyHit(map, hitScore) == hitScore >= 1

\* map->GetBlocksNum() == hitScore
WinCondition(map, hitScore) == map.m_blocksNum = hitScore

\* if (currTime - resetTimer > GAME_RESET_DIFF) { DestroyScene(); InitScene(); }
ResetIfElapsed(w) ==
    IF w.now - w.gs.resetTimer > GAME_RESET_DIFF THEN ResetScene(w) ELSE w

\* Copy(recordedDrawings) and Add(item) at the end of PostGameResultMessage
AddResultMessage(w, text) ==
    [w EXCEPT !.dm = DrawAdd(DrawCopy(@, w.gs.recordedDrawings), FontItem(text))]

\* in.t2: the value GetTime() returns here
PostGameResultMessage(w, text, in) ==
    AddResultMessage(ResetIfElapsed(GetTime(w, in.t2)), text)

\* the win check that ends the RunGame case
CheckWin(w) ==
    IF WinCondition(w.gs.map, w.gs.hitScore)
    THEN [w EXCEPT !.gs.gameplayState = "PreGameWin"]
    ELSE w

PostGame_Ticking(w, st, in) == ManagerTick(w, 1, in)

\* the GameOver and GameWin cases, after currTime = GetTime()
PostGame(w, st, in) ==
    IF w.now - w.gs.resetTimer > GAME_RESET_DIFF
    THEN ResetScene(w)
    ELSE PostGameResultMessage(w,
             IF st = "GameOver" THEN "Critical failure" ELSE "Critical success", in)

\* the PreGameOver and PreGameWin cases, after Record()
PreGame(w, st) ==
    [w EXCEPT !.gs.resetTimer = w.now,
              !.gs.gameplayState = IF st = "PreGameOver" THEN "GameOver" ELSE "GameWin"]

EscapeKey_Ignored(w, in) == w

\* if (IsKeyPressed(KEY_ESCAPE)) gameplayState = GameplayState::RunMenu;
EscapeKey(w, in) ==
    IF in.esc THEN [w EXCEPT !.gs.gameplayState = "RunMenu"] ELSE w

\* in.esc: IsKeyPressed(KEY_ESCAPE); in.t1: the value of the first GetTime()
UpdateGame(w, in) ==
    LET st == w.gs.gameplayState IN
    IF st = "RunGame"
    THEN CheckWin(CollisionTick(ManagerTick(EscapeKey(w, in), 1, in)))
    ELSE IF st \in {"GameOver", "GameWin"}
    THEN PostGame(GetTime(w, in.t1), st, in)
    ELSE PreGame(GetTime([w EXCEPT !.gs.recordedDrawings = DrawRecord(w.dm, @)], in.t1), st)

Update(w, in) ==
    IF w.gs.gameplayState \in GameStates THEN UpdateGame(w, in)
    ELSE IF w.gs.gameplayState = "RunMenu" THEN UpdateMenu(w, in)
    ELSE [w EXCEPT !.ev.exitRequested = TRUE]

\* Draw: DrawGame or DrawMenu; sorted: what std::sort made of the buffer
Draw(w, sorted) ==
    LET st == w.gs.gameplayState
        d == Dispatch(w.dm, sorted)
    IN  IF st \in {"PreGameOver", "PreGameWin"}
        THEN [w |-> [w EXCEPT !.dm = d.dm], out |-> d.out]
        ELSE IF st \in {"RunGame", "GameOver", "GameWin"}
        THEN [w |-> [w EXCEPT !.dm = DrawFlush(d.dm)], out |-> d.out]
        ELSE [w |-> w, out |-> <<>>]

----------------------------------------------------------------------------
(* Inputs of the model *)

\* SpecArena: request sizes, small ones and ones that wrap used + size
ArenaSizes == (0..3) \cup {MaxCapacity, SizeTMod - 2, SizeTMod - 1}

\* the clock's last value in the model
MaxClock == 6

Min(a, b) == IF a < b THEN a ELSE b

\* x of the tile in column col, y of the first row, as Map::Load places them
TileX(col) == (worldDim.x + 200) + col * (128 + TilePadding)
TileY == worldDim.y + 400

BlockColumns == { c \in 0..(MapWidth - 1) : TILES[c + 1] # 0 }

\* positions of the ball after its move: in the open, on the paddle's start
\* position, below the lower boundary, beyond the left and top walls, beyond
\* the right wall, 20 px under the middle of each block, and under the gap
\* between two neighbouring blocks
BallSpots ==
    {Vec(0, 0), Vec(0, 440), Vec(0, 600), Vec(-1000, -600), Vec(950, 0)}
    \cup { Vec(TileX(c) + 32, TileY + 52) : c \in BlockColumns }
    \cup { Vec(TileX(c) + 98, TileY + 52) : c \in { b \in BlockColumns : b + 1 \in BlockColumns } }

\* newPosition.x of the paddle: start, moved, and past the right wall
PlayerXs == {-16, 100, 900}

NoInput == [esc |-> FALSE, space |-> FALSE, px |-> -16, spot |-> Vec(0, 0),
            down |-> FALSE, up |-> FALSE, enter |-> FALSE, t1 |-> 0, t2 |-> 0]

History(op, arg, ok, in, ev, out) ==
    [op |-> op, arg |-> arg, ok |-> ok, in |-> in, ev |-> ev, out |-> out]

NoHistory == History("none", 0, TRUE, NoInput, NoEvents, <<>>)

----------------------------------------------------------------------------
(* SpecArena: a MemoryArena and its caller *)

InitArena ==
    /\ arena = MemoryArena
    /\ regions = <<>>
    /\ goMgr = NewGameObjectManager
    /\ freed = <<>>
    /\ gs = StaticGameState
    /\ dm = NewDrawManager
    /\ clock = 0
    /\ pc = "constructed"
    /\ aborted = FALSE
    /\ last = NoHistory

ArenaDoInit(cap) ==
    /\ pc = "constructed"
    /\ arena' = ArenaInit(arena, cap)
    /\ pc' = "ready"
    /\ last' = History("Init", cap, TRUE, NoInput, NoEvents, <<>>)
    /\ UNCHANGED <<regions, goMgr, freed, gs, dm, clock, aborted>>

ArenaDoPushSize(size) ==
    /\ pc = "ready" /\ ~aborted
    /\ Len(regions) < MaxPushes
    /\ LET r == PushSize(arena, size)
       IN  /\ arena' = r.arena
           /\ aborted' = ~r.ok
           /\ regions' = IF r.ok THEN Append(regions, [offset |-> r.result, size |-> size])
                         ELSE regions
           /\ last' = History("PushSize", size, r.ok, NoInput, NoEvents, <<>>)
    /\ UNCHANGED <<goMgr, freed, gs, dm, clock, pc>>

ArenaDoClear ==
    /\ pc = "ready" /\ ~aborted
    /\ arena' = ArenaClear(arena)
    /\ regions' = <<>>
    /\ last' = History("Clear", 0, TRUE, NoInput, NoEvents, <<>>)
    /\ UNCHANGED <<goMgr, freed, gs, dm, clock, pc, aborted>>

NextArena ==
    \/ \E cap \in 1..MaxCapacity : ArenaDoInit(cap)
    \/ \E size \in ArenaSizes : ArenaDoPushSize(size)
    \/ ArenaDoClear

SpecArena == InitArena /\ [][NextArena]_vars

----------------------------------------------------------------------------
(* SpecStore: a GameObjectManager after Init() and its caller *)

InitStore ==
    /\ arena = MemoryArena
    /\ regions = <<>>
    /\ goMgr = GameObjectManagerInit(NewGameObjectManager)
    /\ freed = <<>>
    /\ gs = StaticGameState
    /\ dm = NewDrawManager
    /\ clock = 0
    /\ pc = "store"
    /\ aborted = FALSE
    /\ last = NoHistory

StoreCreate ==
    /\ pc = "store" /\ ~aborted
    /\ Len(goMgr.heap) < MaxSlots \/ goMgr.m_firstFree # NULL
    /\ LET r == Create(goMgr)
       IN  /\ goMgr' = r.mgr
           /\ aborted' = ~r.ok
           /\ freed' = IF r.ok /\ freed # <<>> /\ r.go \in Range(freed)
                       THEN SelectSeq(freed, LAMBDA e : e # r.go)
                       ELSE freed
           /\ last' = History("Create", r.go, r.ok, NoInput,
                               [NoEvents EXCEPT !.reused = goMgr.m_firstFree # NULL], <<>>)
    /\ UNCHANGED <<arena, regions, gs, dm, clock, pc>>

StoreDestroyGo(go) ==
    /\ pc = "store" /\ ~aborted
    /\ go \in Range(goMgr.m_gos)
    /\ goMgr' = DestroyGo(goMgr, go)
    /\ freed' = <<go>> \o freed
    /\ last' = History("DestroyGo", go, TRUE, NoInput, NoEvents, <<>>)
    /\ UNCHANGED <<arena, regions, gs, dm, clock, pc, aborted>>

StoreDestroyAll ==
    /\ pc = "store" /\ ~aborted
    /\ goMgr' = DestroyAll(goMgr)
    /\ freed' = <<>>
    /\ last' = History("DestroyAll", 0, TRUE, NoInput, NoEvents, <<>>)
    /\ UNCHANGED <<arena, regions, gs, dm, clock, pc, aborted>>

\* a component whose Init registers nothing
StoreAddComponent(go, c) ==
    /\ pc = "store" /\ ~aborted
    /\ go \in Range(goMgr.m_gos)
    /\ Len(goMgr.heap[go].m_components) < MaxComponents
    /\ LET w == AddComponent(World(goMgr, gs, dm, clock), go, c)
       IN  /\ goMgr' = w.mgr
           /\ aborted' = ~w.ok
           /\ last' = History("AddComponent", go, w.ok, NoInput, NoEvents, <<>>)
    /\ UNCHANGED <<arena, regions, freed, gs, dm, clock, pc>>

NextStore ==
    \/ StoreCreate
    \/ \E go \in 1..MaxSlots : StoreDestroyGo(go)
    \/ StoreDestroyAll
    \/ \E go \in 1..MaxSlots : StoreAddComponent(go, PlayerComponent(0, 0, 128, 32))

SpecStore == InitStore /\ [][NextStore]_vars

----------------------------------------------------------------------------
(* Spec: the game under its main loop *)

Init ==
    /\ arena = MemoryArena
    /\ regions = <<>>
    /\ goMgr = NewGameObjectManager
    /\ freed = <<>>
    /\ gs = StaticGameState
    /\ dm = NewDrawManager
    /\ clock = 0
    /\ pc = "start"
    /\ aborted = FALSE
    /\ last = NoHistory

\* what a handler leaves behind
Commit(w) ==
    /\ goMgr' = w.mgr
    /\ gs' = w.gs
    /\ dm' = w.dm
    /\ clock' = w.now
    /\ aborted' = ~w.ok
    /\ UNCHANGED <<arena, regions, freed>>

Here == World(goMgr, gs, dm, clock)

\* a handler has returned: its writes, and where the main loop goes next
Returned(op, in, w, out) ==
    /\ Commit(w)
    /\ last' = History(op, 0, w.ok, in, w.ev, out)
    /\ pc' = IF op = "Update" /\ ~w.ev.exitRequested THEN "draw"
             ELSE IF op = "Update" THEN "exited"
             ELSE "update"

DoInitialize ==
    /\ pc = "start"
    /\ Returned("Initialize", NoInput, Initialize(Here), <<>>)

\* the main loop's call of Update with the frame's input
DoUpdate(in) ==
    /\ pc = "update" /\ ~aborted
    /\ Returned("Update", in, Update(Here, in), <<>>)

UpdateRunMenu ==
    /\ gs.gameplayState = "RunMenu"
    /\ \E down, up, enter \in BOOLEAN :
          DoUpdate([NoInput EXCEPT !.down = down, !.up = up, !.enter = enter])

\* the ball of the scene is Attached
BallAttached ==
    /\ gs.ball # NULL
    /\ \E i \in 1..Len(goMgr.heap[gs.ball].m_components) :
          goMgr.heap[gs.ball].m_components[i].m_state = "Attached"

\* the ball's move is an input only in a frame in which the ball flies
UpdateRunGame ==
    /\ gs.gameplayState = "RunGame"
    /\ \E esc, space \in BOOLEAN, px \in PlayerXs :
          \E spot \in IF BallAttached /\ ~space THEN {NoInput.spot} ELSE BallSpots :
             DoUpdate([NoInput EXCEPT !.esc = esc, !.space = space, !.px = px,
                                      !.spot = spot])

UpdatePreGame ==
    /\ gs.gameplayState \in {"PreGameOver", "PreGameWin"}
    /\ \E esc, enter \in BOOLEAN, t1 \in clock..Min(clock + 1, MaxClock) :
          DoUpdate([NoInput EXCEPT !.esc = esc, !.enter = enter, !.t1 = t1])

UpdatePostGame ==
    /\ gs.gameplayState \in {"GameOver", "GameWin"}
    /\ \E t1 \in clock..Min(clock + 3, MaxClock) :
          \E t2 \in t1..Min(t1 + 1, MaxClock) :
             DoUpdate([NoInput EXCEPT !.t1 = t1, !.t2 = t2])

UpdateQuit ==
    /\ gs.gameplayState = "Quit"
    /\ DoUpdate(NoInput)

Drawn(r) == Returned("Draw", NoInput, r.w, r.out)

DoDraw ==
    /\ pc = "draw" /\ ~aborted
    /\ \E sorted \in SortOutcomes(dm.m_textureItems) : Drawn(Draw(Here, sorted))

Next ==
    \/ DoInitialize
    \/ UpdateRunMenu
    \/ UpdateRunGame
    \/ UpdatePreGame
    \/ UpdatePostGame
    \/ UpdateQuit
    \/ DoDraw

Spec == Init /\ [][Next]_vars

----------------------------------------------------------------------------
(* Properties of the entity store, under SpecStore *)

LiveIds == [k \in 1..Len(goMgr.m_gos) |-> goMgr.heap[goMgr.m_gos[k]].m_id]

\* C1: after any sequence of Create, Destroy(go) of a live entity and
\* whole-store Destroy(), no two entities of the live list m_gos have the same id
C1_LiveIdsDistinct ==
    \A i, j \in 1..Len(goMgr.m_gos) : i # j => LiveIds[i] # LiveIds[j]

\* two entities are live, one of them on a recycled header, after a Create
C1_Witness ==
    /\ last.op = "Create" /\ last.ok /\ last.ev.reused
    /\ Len(goMgr.m_gos) >= 2

\* C2: Destroy(e) of a live entity e removes exactly e: e is no longer live,
\* every other live entity still is, the live count is one less, and e is the
\* head of the free list with its next pointer the previous head
C2_DestroyRemovesExactly ==
    [][ (last'.op = "DestroyGo" /\ last'.arg \in Range(goMgr.m_gos)) =>
          LET e == last'.arg
          IN  /\ e \notin Range(goMgr'.m_gos)
              /\ Range(goMgr'.m_gos) = Range(goMgr.m_gos) \ {e}
              /\ Len(goMgr'.m_gos) = Len(goMgr.m_gos) - 1
              /\ goMgr'.m_firstFree = e
              /\ goMgr'.heap[e].m_next = goMgr.m_firstFree ]_vars

\* an entity was destroyed while others stay live and the free list was not empty
C2_Witness ==
    /\ last.op = "DestroyGo"
    /\ Len(goMgr.m_gos) >= 1
    /\ goMgr.m_firstFree = last.arg
    /\ goMgr.heap[last.arg].m_next # NULL

\* C3: Create with a non-empty free list returns its head, the most recently
\* destroyed entity, with no components and a private arena with used = 0, and
\* leaves the store arena's used alone; with an empty free list it takes a new
\* header from the store arena. Either way the entity becomes the last of the
\* live list, its id is the previous m_genId, and m_genId grows by one
C3_Create ==
    [][ (last'.op = "Create" /\ last'.ok) =>
          LET go == last'.arg
          IN  /\ goMgr.m_firstFree # NULL =>
                    /\ go = goMgr.m_firstFree
                    /\ go = Head(freed)
                    /\ goMgr'.heap[go].m_components = <<>>
                    /\ goMgr'.heap[go].m_arena.used = 0
                    /\ goMgr'.m_arena.used = goMgr.m_arena.used
              /\ goMgr.m_firstFree = NULL =>
                    /\ go = Len(goMgr.heap) + 1
                    /\ go \notin Range(goMgr.m_gos)
                    /\ goMgr'.m_arena.used = goMgr.m_arena.used + SizeofGameObject
              /\ goMgr'.m_gos = Append(goMgr.m_gos, go)
              /\ goMgr'.heap[go].m_id = goMgr.m_genId
              /\ goMgr'.m_genId = goMgr.m_genId + 1 ]_vars

\* a Create took an entity from the free list while another entity is live
C3_Witness ==
    /\ last.op = "Create" /\ last.ok /\ last.ev.reused
    /\ Len(goMgr.m_gos) >= 2
    /\ Last(goMgr.m_gos) = last.arg
    /\ goMgr.heap[last.arg].m_components = <<>>

----------------------------------------------------------------------------
(* Properties of the arena, under SpecArena *)

\* C4: used <= capacity in every reachable state: PushSize(n) with
\* used + n > capacity aborts and does not change used, and Clear sets used to 0
C4_UsedWithinCapacity ==
    [][ /\ arena'.used <= arena'.capacity
        /\ (last'.op = "PushSize" /\ arena.used + last'.arg > arena.capacity) =>
              (aborted' /\ arena'.used = arena.used)
        /\ last'.op = "Clear" => arena'.used = 0 ]_vars

\* every request kept within the capacity, as the assertion is meant to ensure
NonOverflowing ==
    \A k \in 1..Len(regions) : regions[k].offset + regions[k].size <= arena.capacity

\* C5: for non-overflowing PushSize requests since Init or the last Clear the
\* regions [offset, offset + size) are pairwise disjoint, contiguous in request
\* order, and used is the sum of the requested sizes
C5_RegionsContiguous ==
    NonOverflowing =>
        /\ \A k \in 1..Len(regions) :
              regions[k].offset = SumSizes(SubSeq(regions, 1, k - 1))
        /\ \A i, j \in 1..Len(regions) :
              i < j => regions[i].offset + regions[i].size <= regions[j].offset
        /\ arena.used = SumSizes(regions)

\* three requests of different positive sizes fill the arena
C5_Witness ==
    /\ Len(regions) >= 3
    /\ NonOverflowing
    /\ \A k \in 1..Len(regions) : regions[k].size > 0
    /\ regions[1].size # regions[2].size
    /\ arena.used = arena.capacity

----------------------------------------------------------------------------
(* Properties of the game, under Spec *)

State == gs.gameplayState

Edges ==
    { <<"RunMenu", "RunGame">>, <<"RunMenu", "Quit">>,
      <<"RunGame", "RunMenu">>, <<"RunGame", "PreGameOver">>,
      <<"RunGame", "PreGameWin">>,
      <<"PreGameOver", "GameOver">>, <<"PreGameWin", "GameWin">>,
      <<"GameOver", "RunMenu">>, <<"GameWin", "RunMenu">> }

\* C6: the state is RunMenu after Initialize; from one Update to the next it
\* changes only along Edges, to RunGame or Quit from the menu only on Enter with
\* Play or Quit selected; Quit is never left and every Update in Quit sets
\* exitRequested
C6_StateMachine ==
    [][ /\ last'.op = "Initialize" => State' = "RunMenu"
        /\ (pc # "start" /\ State' # State) =>
              /\ last'.op = "Update"
              /\ <<State, State'>> \in Edges
        /\ (State = "RunMenu" /\ State' = "RunGame") =>
              (last'.in.enter /\ gs'.menu.selectedOption = PLAY)
        /\ (State = "RunMenu" /\ State' = "Quit") =>
              (last'.in.enter /\ gs'.menu.selectedOption = QUIT)
        /\ (State = "Quit" /\ last'.op = "Update") =>
              (State' = "Quit" /\ last'.ev.exitRequested) ]_vars

\* the game has quit from the menu after a lost or won scene was reset
C6_Witness ==
    /\ State = "Quit" /\ pc = "exited"
    /\ last.op = "Update" /\ last.ev.exitRequested
    /\ clock > GAME_RESET_DIFF

\* C7: with N blocks loaded, an Update in RunGame ends in PreGameWin exactly
\* when the N-th ball-block collision is scored in it, never while
\* hitScore < N, and then the block registry is empty
C7_WinAtNthHit ==
    [][ (last'.op = "Update" /\ State = "RunGame") =>
          LET N == gs.map.m_blocksNum
              hits == last'.ev.blockHits
          IN  /\ N = Cardinality(BlockColumns)
              /\ gs.hitScore < N
              /\ gs'.hitScore = gs.hitScore + hits
              /\ State' = "PreGameWin" <=> (hits >= 1 /\ gs.hitScore + hits = N)
              /\ gs'.hitScore < N => State' # "PreGameWin"
              /\ State' = "PreGameWin" => gs'.collisionMgr.m_blocks = <<>> ]_vars

\* the last of at least two blocks was hit in the Update that ended in PreGameWin
C7_Witness ==
    /\ last.op = "Update" /\ State = "PreGameWin"
    /\ last.ev.blockHits = 1
    /\ gs.hitScore = gs.map.m_blocksNum /\ gs.hitScore >= 2
    /\ gs.collisionMgr.m_blocks = <<>>

\* C8: in RunGame, when the launched ball's position.y is greater than
\* worldDim.height after its tick, the state at the end of that Update is
\* PreGameOver. No block reaches below the lower boundary, so a ball that fell
\* is out of reach of every block wherever it is
C8_FallEndsGame ==
    [][ (last'.op = "Update" /\ State = "RunGame") =>
          /\ \A k \in 1..Len(gs.collisionMgr.m_blocks) :
                LET b == gs.collisionMgr.m_blocks[k].bounds
                IN  b.y + b.height <= worldDim.height
          /\ last'.ev.fell => State' = "PreGameOver" ]_vars

\* the ball fell in an Update in which Escape was pressed too
C8_Witness ==
    /\ last.op = "Update" /\ last.ev.fell /\ last.in.esc
    /\ State = "PreGameOver"

\* C9: an Update that starts in PreGameOver (PreGameWin) ends in GameOver
\* (GameWin) whatever the input and the time, having appended the draw buffer to
\* the recorded snapshot and set resetTimer to the current time; only an Update
\* in RunGame ends in a Pre state, so a Pre state lasts exactly one Update
C9_PreStateOneUpdate ==
    [][ /\ (last'.op = "Update" /\ State \in {"PreGameOver", "PreGameWin"}) =>
              /\ State' = (IF State = "PreGameOver" THEN "GameOver" ELSE "GameWin")
              /\ gs'.recordedDrawings.textureItems =
                    gs.recordedDrawings.textureItems \o dm.m_textureItems
              /\ gs'.recordedDrawings.fontItems =
                    gs.recordedDrawings.fontItems \o dm.m_fontItems
              /\ gs'.resetTimer = last'.in.t1
              /\ clock' = last'.in.t1
        /\ (last'.op = "Update" /\ State' \in {"PreGameOver", "PreGameWin"}) =>
              State = "RunGame" ]_vars

\* GameWin was entered from PreGameWin, with Escape pressed and the clock moved
\* on, and the frame of the win was recorded
C9_Witness ==
    /\ last.op = "Update" /\ last.in.esc /\ State = "GameWin"
    /\ gs.recordedDrawings.textureItems # <<>>
    /\ gs.resetTimer = clock /\ clock > 0

BlockGos(g) == { g.collisionMgr.m_blocks[k].go : k \in 1..Len(g.collisionMgr.m_blocks) }

\* a new scene: menu state, no score, no snapshot, no tracked ball, the ball
\* Attached, and one live block entity per nonzero tile besides player and ball
FreshScene(m, g) ==
    /\ g.gameplayState = "RunMenu"
    /\ g.hitScore = 0
    /\ g.recordedDrawings = NoRecord
    /\ g.collisionMgr.m_balls = <<>>
    /\ g.ball \in Range(m.m_gos) /\ g.player \in Range(m.m_gos) /\ g.ball # g.player
    /\ GetComponent(m.heap[g.ball], "BallComponent") = 1
    /\ m.heap[g.ball].m_components[1].m_state = "Attached"
    /\ Len(g.collisionMgr.m_blocks) = Cardinality(BlockColumns)
    /\ Cardinality(BlockGos(g)) = Cardinality(BlockColumns)
    /\ \A go \in BlockGos(g) :
          /\ Len(m.heap[go].m_components) = 1
          /\ m.heap[go].m_components[1].name = "BlockComponent"
          /\ m.heap[go].m_components[1].m_go = go
    /\ { m.heap[go].m_components[1].m_position : go \in BlockGos(g) } =
          { Vec(TileX(c), TileY) : c \in BlockColumns }
    /\ Len(m.m_gos) = Cardinality(BlockColumns) + 2
    /\ Range(m.m_gos) = {g.player, g.ball} \cup BlockGos(g)

\* C10: an Update in GameOver or GameWin with more than GAME_RESET_DIFF elapsed
\* since resetTimer leaves a new scene in state RunMenu; before that the state
\* stays and no entity is destroyed
C10_ResetAfterDelay ==
    [][ (last'.op = "Update" /\ State \in {"GameOver", "GameWin"}) =>
          IF clock' - gs.resetTimer > GAME_RESET_DIFF
          THEN FreshScene(goMgr', gs') /\ last'.ev.reset
          ELSE State' = State /\ goMgr' = goMgr /\ ~last'.ev.reset ]_vars

\* the scene was reset by an Update that found the delay elapsed
C10_Witness ==
    /\ last.op = "Update" /\ last.ev.reset
    /\ last.in.t1 > GAME_RESET_DIFF
    /\ FreshScene(goMgr, gs)

----------------------------------------------------------------------------
(* SpecLive: the game with a main loop that keeps running and a clock that   *)
(* keeps advancing.  The clock of the model ends at MaxClock, so a game is   *)
(* started, and its end is timed, only while the reset delay still fits.     *)

Runway == MaxClock - (GAME_RESET_DIFF + 1)

LiveUpdateRunMenu ==
    /\ UpdateRunMenu
    /\ gs'.gameplayState = "RunGame" => clock <= Runway

LiveUpdatePreGame ==
    /\ UpdatePreGame
    /\ clock' <= Runway

\* the main loop goes on: every step of it moves pc
LoopRuns ==
    /\ pc \in {"start", "update", "draw"} /\ ~aborted
    /\ pc' \in {"update", "draw", "exited"} /\ pc' # pc

\* an Update in GameOver or GameWin that reads a later time than any before
TimeAdvances ==
    /\ pc = "update" /\ ~aborted
    /\ gs.gameplayState \in {"GameOver", "GameWin"}
    /\ clock' \in (clock + 1)..MaxClock

NextLive ==
    \/ DoInitialize
    \/ LiveUpdateRunMenu
    \/ UpdateRunGame
    \/ LiveUpdatePreGame
    \/ UpdatePostGame
    \/ UpdateQuit
    \/ DoDraw

SpecLive ==
    /\ Init
    /\ [][NextLive]_vars
    /\ WF_pc(LoopRuns)
    /\ SF_clock(TimeAdvances)

\* C11: whenever the state is PreGameOver or PreGameWin, with Update called
\* every frame and the clock advancing, the state eventually is RunMenu with
\* a freshly initialised scene
C11_EventuallyReset ==
    (State \in {"PreGameOver", "PreGameWin"}) ~>
        (State = "RunMenu" /\ FreshScene(goMgr, gs))

\* a won scene, with every block gone, was reset after the delay
C11_Witness ==
    /\ State = "RunMenu" /\ last.op = "Update" /\ last.ev.reset
    /\ clock > GAME_RESET_DIFF
    /\ Len(gs.collisionMgr.m_blocks) = Cardinality(BlockColumns)
    /\ gs.hitScore = 0
    /\ pc = "draw"

----------------------------------------------------------------------------
(* Properties of the frozen frame, under Spec *)

Count(s, e) == Cardinality({ i \in 1..Len(s) : s[i] = e })

\* the same items, each as often, in whatever order
SameItems(a, b) ==
    /\ Len(a) = Len(b)
    /\ \A e \in Range(a) \cup Range(b) : Count(a, e) = Count(b, e)

Textured(out) == SelectSeq(out, LAMBDA item : item.type = "Texture")
Texts(out) == SelectSeq(out, LAMBDA item : item.type = "Font")

ResultTexts == { FontItem("Critical failure"), FontItem("Critical success") }

\* C12: the Update of the Pre state records the draw buffer as it is at that
\* tick; the record stays as it is until the reset; and every frame drawn in
\* GameOver or GameWin dispatches the recorded textured items, each as often
\* as recorded, and besides them no item but the one result text
C12_FrozenFrame ==
    [][ /\ (last'.op = "Update" /\ State \in {"PreGameOver", "PreGameWin"}) =>
              gs'.recordedDrawings.textureItems = dm.m_textureItems
        /\ (State \in {"GameOver", "GameWin"} /\ State' = State) =>
              gs'.recordedDrawings = gs.recordedDrawings
        /\ (last'.op = "Draw" /\ State \in {"GameOver", "GameWin"}) =>
              /\ SameItems(Textured(last'.out), gs.recordedDrawings.textureItems)
              /\ Len(Texts(last'.out)) <= 1
              /\ Range(Texts(last'.out)) \subseteq ResultTexts ]_vars

\* a frame drawn in GameOver with the result text over the recorded paddle,
\* ball and tiles
C12_Witness ==
    /\ last.op = "Draw" /\ State = "GameOver"
    /\ Texts(last.out) = <<FontItem("Critical failure")>>
    /\ Len(Textured(last.out)) >= 3
    /\ SameItems(Textured(last.out), gs.recordedDrawings.textureItems)

\* C13: an Update in RunGame during which Escape is pressed ends in RunMenu,
\* and that Update resets nothing: the score only counts the blocks hit in it,
\* no entity but a hit block is destroyed, and a launched ball stays launched
C13_EscapeEndsInMenu ==
    [][ (last'.op = "Update" /\ State = "RunGame" /\ last'.in.esc) =>
          /\ State' = "RunMenu"
          /\ ~last'.ev.reset
          /\ gs'.hitScore = gs.hitScore + last'.ev.blockHits
          /\ Len(gs'.collisionMgr.m_blocks) =
                Len(gs.collisionMgr.m_blocks) - last'.ev.blockHits
          /\ gs'.player = gs.player /\ gs'.ball = gs.ball
          /\ ~BallAttached => ~BallAttached' ]_vars

\* C14: hitScore grows by exactly one per ball-vs-block collision callback (a
\* callback per block destroyed), a ball-vs-paddle collision leaves it as it
\* is, and no other step changes it but the scene reset, which sets it to 0
C14_ScoreCounts ==
    [][ /\ gs'.hitScore = (IF last'.ev.reset THEN 0
                           ELSE gs.hitScore + last'.ev.blockHits)
        /\ (last'.op = "Update" /\ ~last'.ev.reset) =>
              Len(gs'.collisionMgr.m_blocks) =
                  Len(gs.collisionMgr.m_blocks) - last'.ev.blockHits ]_vars

\* the ball met the paddle, and no block, in an Update that began and ended
\* with one block scored
C14_Witness ==
    /\ last.op = "Update" /\ last.ev.paddleHits >= 1 /\ last.ev.blockHits = 0
    /\ gs.hitScore = 1
    /\ Len(gs.collisionMgr.m_blocks) = Cardinality(BlockColumns) - 1

----------------------------------------------------------------------------
(* SpecPure: the library's and the ball's functions, applied to arguments    *)
(* drawn from bounded sets; last holds the arguments and the result          *)

InitPure ==
    /\ arena = MemoryArena
    /\ regions = <<>>
    /\ goMgr = NewGameObjectManager
    /\ freed = <<>>
    /\ gs = StaticGameState
    /\ dm = NewDrawManager
    /\ clock = 0
    /\ pc = "pure"
    /\ aborted = FALSE
    /\ last = NoHistory

\* a call of a function: its arguments and what it returned
Applied(op, arg, out) ==
    /\ last' = History(op, arg, TRUE, NoInput, NoEvents, out)
    /\ pc' = "applied"
    /\ UNCHANGED <<arena, regions, goMgr, freed, gs, dm, clock, aborted>>

\* boxes: about the origin, and off it with unequal half extents
GeomBoxes ==
    { [center |-> Vec(0, 0), halfExtents |-> Vec(10, 10)],
      [center |-> Vec(3, -2), halfExtents |-> Vec(4, 2)] }

\* circle centres inside the boxes, on their faces, within reach of faces and
\* corners, touching them, and far off
GeomCoords == {-100, -15, -13, -12, -10, -4, 0, 3, 10, 12, 13, 14, 15, 100}

GeomCircles ==
    { [center |-> Vec(x, y), radius |-> r] : x \in GeomCoords, y \in GeomCoords, r \in {1, 5} }

PureAABBvsCircle ==
    /\ pc = "pure"
    /\ \E aabb \in GeomBoxes, circle \in GeomCircles :
          Applied("AABBvsCircle", [aabb |-> aabb, circle |-> circle],
                  AABBvsCircle(aabb, circle))

\* BallComponent::INIT_VELOCITY
INIT_VELOCITY == Vec(100, -660)

Abs(x) == IF x < 0 THEN -x ELSE x

\* Vector2Normalize(dir) * length, kept exact as the direction and the square
\* of the length; Vector2Normalize leaves the null vector null
Scaled(dir, len2) ==
    [dir |-> dir, len2 |-> IF dir = Vec(0, 0) THEN 0 ELSE len2]

Vector2LengthSqr(v) == v.x * v.x + v.y * v.y

ResolvePlayerCollision_KeepSign(m_velocity, centerBall, playerComp) ==
    LET centerPlayer == BoxCenter(playerComp)
        diff == centerBall.x - centerPlayer.x
        vx == INIT_VELOCITY.x * 5 * diff
        vy == m_velocity.y * playerComp.m_size.x
    IN  Scaled(Vec(vx, vy), Vector2LengthSqr(m_velocity))

ResolvePlayerCollision_AddX(m_velocity, centerBall, playerComp) ==
    LET centerPlayer == BoxCenter(playerComp)
        diff == centerBall.x - centerPlayer.x
        vx == m_velocity.x * playerComp.m_size.x + INIT_VELOCITY.x * 5 * diff
        vy == -1 * Abs(m_velocity.y) * playerComp.m_size.x
    IN  Scaled(Vec(vx, vy), Vector2LengthSqr(m_velocity))

\* BallComponent::ResolvePlayerCollision: the new m_velocity. intensity * ratio
\* is 2.5 * diff / (size.x * 0.5) = 5 * diff / size.x; both components of the
\* direction are taken times size.x, which keeps them whole and the direction
\* the same
ResolvePlayerCollision(m_velocity, centerBall, playerComp) ==
    LET centerPlayer == BoxCenter(playerComp)
        diff == centerBall.x - centerPlayer.x
        vx == INIT_VELOCITY.x * 5 * diff
        vy == -1 * Abs(m_velocity.y) * playerComp.m_size.x
    IN  Scaled(Vec(vx, vy), Vector2LengthSqr(m_velocity))

\* m_velocity of a launched ball: m_velocity.y starts as INIT_VELOCITY.y and
\* is only ever negated (walls, blocks) or set to -|m_velocity.y| and rescaled
\* by a positive factor (paddle), so it is never 0; m_velocity.x is negated,
\* set to 0 by a block's side, or set by the paddle
VelocityXs == {-375, -100, 0, 100, 250}
VelocityYs == {-660, -100, -1, 1, 660}
Velocities == { Vec(x, y) : x \in VelocityXs, y \in VelocityYs }

\* centerBall.x - centerPlayer.x at a contact: up to half the paddle plus the
\* ball's radius to either side
StrikeOffsets == {-96, -64, -32, -1, 0, 1, 32, 64, 96}

PureResolvePlayerCollision ==
    /\ pc = "pure"
    /\ \E v \in Velocities, off \in StrikeOffsets, px \in PlayerXs :
          LET playerComp == PlayerComponent(px, 500, 128, 32)
              centerBall == Vec(BoxCenter(playerComp).x + off, 468)
          IN  Applied("ResolvePlayerCollision",
                      [m_velocity |-> v, centerBall |-> centerBall, playerComp |-> playerComp],
                      ResolvePlayerCollision(v, centerBall, playerComp))

\* the last index into a draw list of the model
MaxItems == 3

DrawItems == { TextureItem("paddle", 0), TextureItem("doge", 0), TextureItem("tile", -999) }

RECURSIVE SeqsUpTo(_, _)
SeqsUpTo(S, n) ==
    IF n = 0 THEN { <<>> }
    ELSE LET shorter == SeqsUpTo(S, n - 1)
         IN  shorter \cup { Append(s, e) : s \in shorter, e \in S }

\* a DrawManager with up to MaxItems textured items and up to two texts
DrawBuffers ==
    { [m_textureItems |-> t, m_fontItems |-> f] :
        t \in SeqsUpTo(DrawItems, MaxItems),
        f \in { <<>>, <<FontItem("Play")>>, <<FontItem("Play"), FontItem("Quit")>> } }

\* Flush(), and Record(snapshot), Flush(), Copy(snapshot) with an empty snapshot
PureSnapshot ==
    /\ pc = "pure"
    /\ \E d \in DrawBuffers :
          Applied("Snapshot", d,
                  [flushed |-> DrawFlush(d),
                   record |-> DrawRecord(d, NoRecord),
                   restored |-> DrawCopy(DrawFlush(d), DrawRecord(d, NoRecord))])

PureDispatch ==
    /\ pc = "pure"
    /\ \E d \in DrawBuffers :
          \E sorted \in SortOutcomes(d.m_textureItems) :
             Applied("Dispatch", d, Dispatch(d, sorted))

\* tile bytes: empty, and two occupied values
TileBytes == {0, 1, 255}

\* width and height of the maps loaded
MapShapes == { <<1, 1>>, <<3, 1>>, <<1, 2>>, <<2, 2>> }

\* Map::Load(data) on a new Map of shape[1] x shape[2] tiles, with an entity
\* store after Init() and an empty collision manager
PureMapLoad ==
    /\ pc = "pure"
    /\ \E shape \in MapShapes :
          \E data \in [1..(shape[1] * shape[2]) -> TileBytes] :
             Applied("MapLoad", data,
                     MapLoad(World(GameObjectManagerInit(NewGameObjectManager),
                                   [StaticGameState EXCEPT
                                       !.map = NewMap(Vec(-760, -140), Vec(128, 64),
                                                      shape[1], shape[2])],
                                   NewDrawManager, 0),
                             data))

\* the hit-collecting CollisionManager::Tick: the inner loop of the 2nd test,
\* ball against m_blocks[j..]; s = [w, hitInfo]
RECURSIVE CollectBlocks(_, _, _)
CollectBlocks(s, ball, j) ==
    IF j > Len(s.w.gs.collisionMgr.m_blocks) THEN s
    ELSE LET block == s.w.gs.collisionMgr.m_blocks[j]
             manifold == AABBvsCircle(
                 [center |-> Vec(block.bounds.x, block.bounds.y),
                  halfExtents |-> Vec(block.bounds.width, block.bounds.height)],
                 [center |-> Vec(ball.bounds.x, ball.bounds.y),
                  radius |-> ball.bounds.width])
         IN  IF manifold.collides
             THEN CollectBlocks(
                      [w |-> BallOnCollision(s.w, ball.go, manifold, block.go),
                       hitInfo |-> Append(s.hitInfo, [ball |-> ball.go, block |-> block.go,
                                                      manifold |-> manifold])],
                      ball, j + 1)
             ELSE CollectBlocks(s, ball, j + 1)

\* the outer loop of the 2nd test, from m_balls[k] on
RECURSIVE CollectBalls(_, _)
CollectBalls(s, k) ==
    IF k > Len(s.w.gs.collisionMgr.m_balls) THEN s
    ELSE CollectBalls(CollectBlocks(s, s.w.gs.collisionMgr.m_balls[k], 1), k + 1)

\* both tests, up to the post processing
CollectScan(w) ==
    CollectBalls([w |-> IF GetComponent(w.mgr.heap[w.gs.player], "PlayerComponent") # 0
                        THEN PlayerPass(w, 1) ELSE w,
                  hitInfo |-> <<>>], 1)

\* post processing, from hitInfo[i] on
RECURSIVE PostProcess(_, _, _)
PostProcess(w, hitInfo, i) ==
    IF i > Len(hitInfo) THEN w
    ELSE IF GetComponent(w.mgr.heap[hitInfo[i].block], "BlockComponent") # 0
    THEN PostProcess([BlockOnCollision(w, hitInfo[i].block, hitInfo[i].manifold,
                                       hitInfo[i].ball)
                         EXCEPT !.mgr = DestroyGo(@, hitInfo[i].block)],
                     hitInfo, i + 1)
    ELSE PostProcess(w, hitInfo, i + 1)

\* a ball that was made and launched: collisionMgr.AddBall(m_go)
Tracked(s) == [s.w EXCEPT !.gs.collisionMgr = AddBall(@, s.go)]

RECURSIVE LaunchBalls(_, _, _)
LaunchBalls(w, spots, i) ==
    IF i > Len(spots) THEN w
    ELSE LaunchBalls(
             Tracked(Spawn(w, [BallComponent(spots[i].x, spots[i].y, 64, 64, 32)
                                  EXCEPT !.m_state = "Launched"])),
             spots, i + 1)

\* a scene with the paddle, a launched ball at each of spots, and the blocks
CollisionScene(spots) ==
    MapLoad(SceneMap(LaunchBalls(
                ScenePlayer(Spawn(World(GameObjectManagerInit(NewGameObjectManager),
                                        StaticGameState, NewDrawManager, 0),
                                  PlayerComponent(-16, worldDim.height - 40, 128, 32))),
                spots, 1)),
            SubSeq(TILES, 1, MapWidth))

\* positions of a ball: in the open, under the first block, under the gap
\* between the first two blocks, on the paddle
CollisionSpots ==
    {Vec(0, 0), Vec(0, 440)}
    \cup { Vec(TileX(c) + 32, TileY + 52) : c \in BlockColumns }
    \cup { Vec(TileX(c) + 98, TileY + 52) : c \in { b \in BlockColumns : b + 1 \in BlockColumns } }

\* what the scan and the post processing of one Tick leave behind
Ticked(before, scan) ==
    [before |-> before, scanned |-> scan.w, hitInfo |-> scan.hitInfo,
     after |-> PostProcess(scan.w, scan.hitInfo, 1)]

\* the hit-collecting CollisionManager::Tick with one or two tracked balls
PureCollisionTick ==
    /\ pc = "pure"
    /\ \E spots \in SeqsUpTo(CollisionSpots, 2) \ { <<>> } :
          Applied("CollisionTick", spots,
                  Ticked(CollisionScene(spots), CollectScan(CollisionScene(spots))))

\* the velocity part of BallComponent::ResolveBlockCollision
BlockVelocity(m_velocity, manifold) ==
    LET face == CollisionFace(manifold)
    IN  IF face \in {"Top", "Bottom"} THEN [m_velocity EXCEPT !.y = -m_velocity.y]
        ELSE IF face \in {"Left", "Right"}
        THEN [m_velocity EXCEPT !.x = m_velocity.x - m_velocity.x]
        ELSE m_velocity

\* a ball whose circle is circle
BallAt(circle) ==
    [BallComponent(circle.center.x - circle.radius, circle.center.y - circle.radius,
                   2 * circle.radius, 2 * circle.radius, circle.radius)
        EXCEPT !.m_state = "Launched"]

\* BallComponent::OnCollision with a block whose box the ball's circle meets
PureResolveBlockCollision ==
    /\ pc = "pure"
    /\ \E aabb \in GeomBoxes, circle \in GeomCircles, v \in Velocities :
          /\ AABBvsCircle(aabb, circle).collides
          /\ Applied("ResolveBlockCollision",
                     [aabb |-> aabb, circle |-> circle, m_velocity |-> v,
                      manifold |-> AABBvsCircle(aabb, circle)],
                     [face |-> CollisionFace(AABBvsCircle(aabb, circle)),
                      ball |-> ResolveBlockCollision(BallAt(circle),
                                                     AABBvsCircle(aabb, circle)),
                      m_velocity |-> BlockVelocity(v, AABBvsCircle(aabb, circle))])

\* the calls of a script: goMgr.Create(), or goMgr.Destroy(m_gos[k])
MaxCalls == 4

\* a call is the index in m_gos of the entity to Destroy, or CREATE
CREATE == -1

StoreCalls == {CREATE, 0, 1, 2}

\* every Destroy of the script names an entity that is live when it is called
RECURSIVE Callable(_, _, _)
Callable(script, i, live) ==
    IF i > Len(script) THEN TRUE
    ELSE IF script[i] = CREATE THEN Callable(script, i + 1, live + 1)
    ELSE script[i] < live /\ Callable(script, i + 1, live - 1)

\* Create and AddComponent<BlockComponent> as Map::Load calls them, Destroy as
\* the collision pass calls it for a block
RECURSIVE RunCalls(_, _, _)
RunCalls(w, script, i) ==
    IF i > Len(script) THEN w
    ELSE IF script[i] = CREATE
    THEN RunCalls(Spawn(w, BlockComponent(0, 0, 64, 32)).w, script, i + 1)
    ELSE RunCalls([BlockOnCollision(w, w.mgr.m_gos[script[i] + 1], 0, NULL)
                      EXCEPT !.mgr = DestroyGo(@, w.mgr.m_gos[script[i] + 1])],
                  script, i + 1)

\* the m_id of the live entities, in the order of m_gos
IdsOf(m) == [k \in 1..Len(m.m_gos) |-> m.heap[m.m_gos[k]].m_id]

\* what a Tick or an Update found live, and what it did
Visited(before, after) ==
    [live |-> IdsOf(before.mgr), ok |-> after.ok, ev |-> after.ev,
     before |-> before, after |-> after]

\* GameObjectManager::Tick after a script of Create and Destroy calls
PureManagerTick ==
    /\ pc = "pure"
    /\ \E script \in SeqsUpTo(StoreCalls, MaxCalls) :
          /\ Callable(script, 1, 0)
          /\ Applied("Tick", script,
                     Visited(RunCalls(World(GameObjectManagerInit(NewGameObjectManager),
                                            StaticGameState, NewDrawManager, 0),
                                      script, 1),
                             ManagerTick(RunCalls(World(GameObjectManagerInit(NewGameObjectManager),
                                                        StaticGameState, NewDrawManager, 0),
                                                  script, 1),
                                         1, NoInput)))

\* the scene as Initialize and the menu's "start" leave it
StartedGame ==
    [Initialize(World(NewGameObjectManager, StaticGameState, NewDrawManager, 0))
        EXCEPT !.gs.gameplayState = "RunGame"]

\* positions of the ball with its centre at the centre of a block, and on the
\* middle of its lower face
InsideSpots == { Vec(TileX(c) + 32, TileY + dy) : c \in BlockColumns, dy \in {0, 32} }

\* one Update in RunGame on the started game, the ball launched by this frame
\* or still attached
PureUpdateRunGame ==
    /\ pc = "pure"
    /\ \E esc, space \in BOOLEAN, px \in PlayerXs, spot \in BallSpots \cup InsideSpots :
          Applied("UpdateRunGame",
                  [NoInput EXCEPT !.esc = esc, !.space = space, !.px = px, !.spot = spot],
                  Visited(StartedGame,
                          Update(StartedGame, [NoInput EXCEPT !.esc = esc, !.space = space,
                                                              !.px = px, !.spot = spot])))

\* an AddComponent call: the overload and the component T constructs, a
\* component whose init hook registers its owner as BlockComponent::Init does
AddCalls ==
    { [args |-> a, c |-> BlockComponent(x, 0, 64, 32)] : a \in BOOLEAN, x \in {0, 70, 140} }

RECURSIVE RunAdds(_, _, _, _)
RunAdds(w, go, adds, i) ==
    IF i > Len(adds) THEN w
    ELSE RunAdds(IF adds[i].args THEN AddComponent(w, go, adds[i].c)
                 ELSE AddComponentNoArgs(w, go, adds[i].c),
                 go, adds, i + 1)

\* a new entity and the AddComponent calls on it
Assembled(cr, adds) == [go |-> cr.go, w |-> RunAdds(cr.w, cr.go, adds, 1)]

\* AddComponent calls, of either overload, on a new entity
PureAddComponent ==
    /\ pc = "pure"
    /\ \E adds \in SeqsUpTo(AddCalls, 2) \ { <<>> } :
          Applied("AddComponent", adds,
                  Assembled(WorldCreate(World(GameObjectManagerInit(NewGameObjectManager),
                                              StaticGameState, NewDrawManager, 0)),
                            adds))

\* RemoveBlock(go) or Destroy(go) on the world w for the entity go that heads
\* the free list: it was destroyed, and removed from the registry, before
CallUntracked(w, call) ==
    [before |-> w,
     after |-> IF call = "RemoveBlock"
               THEN [w EXCEPT !.gs.collisionMgr = RemoveBlock(@, w.mgr.heap, w.mgr.m_firstFree)]
               ELSE [w EXCEPT !.mgr = DestroyGo(@, w.mgr.m_firstFree)]]

\* a second RemoveBlock or Destroy for an entity that is already gone; Destroy
\* on an empty live list reads m_gos.back() of an empty vector and is left out
PureUntracked ==
    /\ pc = "pure"
    /\ \E script \in SeqsUpTo(StoreCalls, MaxCalls), call \in {"RemoveBlock", "Destroy"} :
          /\ Callable(script, 1, 0)
          /\ RunCalls(World(GameObjectManagerInit(NewGameObjectManager),
                            StaticGameState, NewDrawManager, 0), script, 1).mgr.m_firstFree # NULL
          /\ call = "Destroy" =>
                RunCalls(World(GameObjectManagerInit(NewGameObjectManager),
                               StaticGameState, NewDrawManager, 0), script, 1).mgr.m_gos # <<>>
          /\ Applied("Untracked", [script |-> script, call |-> call],
                     CallUntracked(RunCalls(World(GameObjectManagerInit(NewGameObjectManager),
                                                  StaticGameState, NewDrawManager, 0),
                                            script, 1),
                                   call))

NextPure ==
    \/ PureAABBvsCircle
    \/ PureResolvePlayerCollision
    \/ PureSnapshot
    \/ PureDispatch
    \/ PureMapLoad
    \/ PureCollisionTick
    \/ PureResolveBlockCollision
    \/ PureManagerTick
    \/ PureUpdateRunGame
    \/ PureAddComponent
    \/ PureUntracked

SpecPure == InitPure /\ [][NextPure]_vars

----------------------------------------------------------------------------
(* Properties of the functions, under SpecPure *)

\* the points of a box with whole coordinates
BoxPoints(aabb) ==
    { Vec(x, y) : x \in (aabb.center.x - aabb.halfExtents.x)..(aabb.center.x + aabb.halfExtents.x),
                  y \in (aabb.center.y - aabb.halfExtents.y)..(aabb.center.y + aabb.halfExtents.y) }

SqrDistance(p, q) == (p.x - q.x) * (p.x - q.x) + (p.y - q.y) * (p.y - q.y)

ExampleBox == [center |-> Vec(0, 0), halfExtents |-> Vec(10, 10)]

\* C15: AABBvsCircle takes as closest point the circle's centre with the
\* centre difference clamped to the half extents, which is a point of the box
\* that no point of the box is nearer to the centre than; penetration is the
\* radius minus the distance from that point to the centre (the distance in
\* whole units, rounded up); collides is true exactly when penetration >= 0,
\* which is exactly when the distance is at most the radius, touching
\* included; the circle of radius 5 at (100, 0) does not collide with the box
\* at (0, 0) with half extents (10, 10)
C15_ClosestPointPenetration ==
    last.op = "AABBvsCircle" =>
        LET aabb == last.arg.aabb
            circle == last.arg.circle
            closest == Vec(circle.center.x + last.out.diff.x,
                           circle.center.y + last.out.diff.y)
            d2 == Vector2LengthSqr(last.out.diff)
            dist == circle.radius - last.out.penetration
        IN  /\ closest.x = aabb.center.x + Clamp(circle.center.x - aabb.center.x,
                                                 -aabb.halfExtents.x, aabb.halfExtents.x)
            /\ closest.y = aabb.center.y + Clamp(circle.center.y - aabb.center.y,
                                                 -aabb.halfExtents.y, aabb.halfExtents.y)
            /\ closest \in BoxPoints(aabb)
            /\ \A p \in BoxPoints(aabb) : SqrDistance(p, circle.center) >= d2
            /\ dist >= 0 /\ dist * dist >= d2
            /\ dist > 0 => (dist - 1) * (dist - 1) < d2
            /\ last.out.collides <=> last.out.penetration >= 0
            /\ last.out.collides <=> d2 <= circle.radius * circle.radius
            /\ (aabb = ExampleBox /\ circle = [center |-> Vec(100, 0), radius |-> 5]) =>
                  ~last.out.collides

\* a circle of radius 5 that touches a corner of the box from (3, 4) away
C15_Witness ==
    /\ last.op = "AABBvsCircle"
    /\ last.arg.aabb = ExampleBox
    /\ last.arg.circle = [center |-> Vec(13, 14), radius |-> 5]
    /\ last.out.collides /\ last.out.penetration = 0
    /\ last.out.diff = Vec(-3, -4)

\* C16: for the box at (0, 0) with half extents (10, 10) and the circle of
\* radius 5 at (12, 0), AABBvsCircle returns collides = true, penetration = 3
\* and a manifold.diff with a positive x and a zero y component
C16_SeparationAlongX ==
    (/\ last.op = "AABBvsCircle"
     /\ last.arg.aabb = ExampleBox
     /\ last.arg.circle = [center |-> Vec(12, 0), radius |-> 5]) =>
        /\ last.out.collides
        /\ last.out.penetration = 3
        /\ last.out.diff.x > 0
        /\ last.out.diff.y = 0

C18_CentreHitStraightUp ==
    (/\ last.op = "ResolvePlayerCollision"
     /\ last.arg.centerBall.x = BoxCenter(last.arg.playerComp).x) =>
        /\ last.out.dir.x = 0
        /\ last.out.dir.y < 0
        /\ last.out.len2 = Vector2LengthSqr(last.arg.m_velocity)

\* a ball that came down to the left struck the middle of a moved paddle
C18_Witness ==
    /\ last.op = "ResolvePlayerCollision"
    /\ last.arg.m_velocity = Vec(-375, 660)
    /\ last.arg.playerComp.m_position.x = 100
    /\ last.arg.centerBall.x = 164
    /\ last.out.dir.x = 0 /\ last.out.len2 = 375 * 375 + 660 * 660

\* the items of s in ascending z_index, items of equal z_index in the order
\* they have in s
RECURSIVE StableSorted(_)
StableSorted(s) ==
    IF s = <<>> THEN <<>>
    ELSE LET zmin == CHOOSE z \in { s[i].z_index : i \in 1..Len(s) } :
                        \A i \in 1..Len(s) : z <= s[i].z_index
         IN  SelectSeq(s, LAMBDA e : e.z_index = zmin)
                \o StableSorted(SelectSeq(s, LAMBDA e : e.z_index # zmin))

\* C19: Dispatch hands the textured items to the renderer in ascending
\* z_index, and items of equal z_index in the order in which they were added
C19_DispatchStable ==
    last.op = "Dispatch" =>
        Textured(last.out.out) = StableSorted(last.arg.m_textureItems)

\* C20: Flush leaves both lists empty; Record into an empty snapshot, then
\* Flush, then Copy leaves both lists with the items they had, in the order
\* they had
C20_SnapshotRoundTrip ==
    last.op = "Snapshot" =>
        /\ last.out.flushed.m_textureItems = <<>>
        /\ last.out.flushed.m_fontItems = <<>>
        /\ last.out.record.textureItems = last.arg.m_textureItems
        /\ last.out.record.fontItems = last.arg.m_fontItems
        /\ last.out.restored.m_textureItems = last.arg.m_textureItems
        /\ last.out.restored.m_fontItems = last.arg.m_fontItems

\* three different textured items, not in depth order, and two texts
C20_Witness ==
    /\ last.op = "Snapshot"
    /\ last.arg.m_textureItems =
          <<TextureItem("paddle", 0), TextureItem("tile", -999), TextureItem("doge", 0)>>
    /\ last.arg.m_fontItems = <<FontItem("Play"), FontItem("Quit")>>
    /\ last.out.restored = last.arg
    /\ last.out.flushed = NewDrawManager

\* the go's of a store's live list that carry a component called name
GosWith(mgr, name) ==
    { k \in 1..Len(mgr.m_gos) : GetComponent(mgr.heap[mgr.m_gos[k]], name) # 0 }

\* C21: after Map::Load(data) on a new Map, GetBlocksNum() is the number of
\* nonzero bytes of data, and so is the number of entities with a
\* BlockComponent in the store's live list, which holds nothing else, and the
\* number of entries of the collision manager's block registry, one per entity
C21_LoadCountsBlocks ==
    last.op = "MapLoad" =>
        LET n == Cardinality({ i \in DOMAIN last.arg : last.arg[i] # 0 })
            w == last.out
        IN  /\ w.ok
            /\ w.gs.map.m_blocksNum = n
            /\ Len(w.mgr.m_gos) = n
            /\ Cardinality(GosWith(w.mgr, "BlockComponent")) = n
            /\ Len(w.gs.collisionMgr.m_blocks) = n
            /\ BlockGos(w.gs) = Range(w.mgr.m_gos)
            /\ Cardinality(BlockGos(w.gs)) = n

\* a 2 x 2 map with an empty tile between occupied ones
C21_Witness ==
    /\ last.op = "MapLoad"
    /\ last.arg = <<1, 0, 255, 1>>
    /\ last.out.gs.map.m_blocksNum = 3
    /\ Len(last.out.gs.collisionMgr.m_blocks) = 3

----------------------------------------------------------------------------
(* Properties of the ticks, under Spec *)

\* the world in which the ticks of an Update in RunGame with input in start
Ticking(in) == EscapeKey(Here, in)

\* C22: gameplayState is changed only by the transition code of UpdateGame and
\* UpdateMenu: in an Update in RunGame, GameObjectManager::Tick and, after it,
\* CollisionManager::Tick with its callbacks leave gameplayState as it is
C22_TicksKeepState ==
    [][ (last'.op = "Update" /\ State = "RunGame") =>
          /\ ManagerTick(Ticking(last'.in), 1, last'.in).gs.gameplayState =
                Ticking(last'.in).gs.gameplayState
          /\ CollisionTick(ManagerTick(Ticking(last'.in), 1, last'.in)).gs.gameplayState =
                ManagerTick(Ticking(last'.in), 1, last'.in).gs.gameplayState ]_vars

\* the indices of the registry's blocks that the circle of a tracked ball meets
Colliding(blocks, ball) ==
    { k \in 1..Len(blocks) :
        AABBvsCircle([center |-> Vec(blocks[k].bounds.x, blocks[k].bounds.y),
                      halfExtents |-> Vec(blocks[k].bounds.width, blocks[k].bounds.height)],
                     [center |-> Vec(ball.bounds.x, ball.bounds.y),
                      radius |-> ball.bounds.width]).collides }

FirstOf(S) == CHOOSE k \in S : \A j \in S : k <= j

\* C23: in a collision pass the tracked ball hits at most one block: when its
\* circle meets blocks of the registry, the first of them in registry order
\* gets the ball's and its own callback once each (one more hit scored, one
\* entry fewer), leaves the registry and the live list, and every other block,
\* met or not, stays in both; when it meets none, nothing is removed
C23_OneBlockPerTick ==
    [][ (last'.op = "Update" /\ State = "RunGame") =>
          LET blocks == gs.collisionMgr.m_blocks
              balls == gs'.collisionMgr.m_balls
              met == IF balls = <<>> THEN {} ELSE Colliding(blocks, balls[1])
              gone == IF met = {} THEN {} ELSE { blocks[FirstOf(met)].go }
          IN  /\ Len(balls) <= 1
              /\ last'.ev.blockHits = Cardinality(gone)
              /\ gs'.hitScore = gs.hitScore + Cardinality(gone)
              /\ Len(gs'.collisionMgr.m_blocks) = Len(blocks) - Cardinality(gone)
              /\ BlockGos(gs') = BlockGos(gs) \ gone
              /\ Range(goMgr'.m_gos) = Range(goMgr.m_gos) \ gone
              /\ Len(goMgr'.m_gos) = Len(goMgr.m_gos) - Cardinality(gone) ]_vars

\* the ball met two blocks at once, the first of the registry was hit and the
\* other one is still there
C23_Witness ==
    /\ last.op = "Update" /\ last.ev.blockHits = 1
    /\ gs.collisionMgr.m_balls # <<>>
    /\ Colliding(gs.collisionMgr.m_blocks, gs.collisionMgr.m_balls[1]) # {}

\* C24: in the hit-collecting Tick the scan leaves the block registry and the
\* live list as they were, and the post processing removes from both exactly
\* the blocks that were hit, each once, and nothing else, also when two balls
\* hit the same block
C24_CollectThenDestroy ==
    (last.op = "CollisionTick" /\ last.out.before.ok) =>
        LET b == last.out.before
            s == last.out.scanned
            a == last.out.after
            hit == { last.out.hitInfo[i].block : i \in 1..Len(last.out.hitInfo) }
        IN  /\ s.gs.collisionMgr.m_blocks = b.gs.collisionMgr.m_blocks
            /\ s.mgr.m_gos = b.mgr.m_gos
            /\ hit \subseteq BlockGos(b.gs)
            /\ BlockGos(a.gs) = BlockGos(b.gs) \ hit
            /\ Len(a.gs.collisionMgr.m_blocks) =
                  Len(b.gs.collisionMgr.m_blocks) - Cardinality(hit)
            /\ Range(a.mgr.m_gos) = Range(b.mgr.m_gos) \ hit
            /\ Len(a.mgr.m_gos) = Len(b.mgr.m_gos) - Cardinality(hit)

\* the four axis directions ResolveBlockCollision compares with
Axis(face) ==
    IF face = "Top" THEN Vec(0, 1)
    ELSE IF face = "Bottom" THEN Vec(0, -1)
    ELSE IF face = "Right" THEN Vec(1, 0)
    ELSE Vec(-1, 0)

Dot(a, b) == a.x * b.x + a.y * b.y

\* the faces whose axis has the greatest positive dot product with d; the
\* normalised d has the same ones
GreatestFaces(d) ==
    { f \in {"Top", "Bottom", "Right", "Left"} :
        /\ Dot(d, Axis(f)) > 0
        /\ \A g \in {"Top", "Bottom", "Right", "Left"} : Dot(d, Axis(g)) <= Dot(d, Axis(f)) }

\* C25: ResolveBlockCollision takes as contact face one whose axis has the
\* greatest positive dot product with the separation vector, so a separation
\* whose x component is the larger in magnitude is a left or right contact
C25_GreatestDotWins ==
    last.op = "ResolveBlockCollision" =>
        LET d == last.arg.manifold.diff
        IN  /\ GreatestFaces(d) # {} => last.out.face \in GreatestFaces(d)
            /\ Abs(d.x) > Abs(d.y) => last.out.face \in {"Left", "Right"}

\* C26: on a block hit the velocity component along the contact axis is
\* negated, y for a top or bottom contact and x for a left or right one, and
\* the other component stays as it is
C26_VelocityInverted ==
    last.op = "ResolveBlockCollision" =>
        LET v == last.arg.m_velocity
        IN  /\ last.out.face \in {"Top", "Bottom"} =>
                  last.out.m_velocity = Vec(v.x, -v.y)
            /\ last.out.face \in {"Left", "Right"} =>
                  last.out.m_velocity = Vec(-v.x, v.y)

\* C27: on a block hit with any contact face the ball is moved by penetration
\* along the contact axis, away from the block: its centre is not nearer to
\* the block's closest point afterwards than it was before
C27_PushedAway ==
    last.op = "ResolveBlockCollision" =>
        LET before == last.arg.circle.center
            after == BallCenter(last.out.ball)
            closest == Vec(before.x + last.arg.manifold.diff.x,
                           before.y + last.arg.manifold.diff.y)
            pen == last.arg.manifold.penetration
        IN  /\ last.out.face \in {"Top", "Bottom"} =>
                  (after.x = before.x /\ Abs(after.y - before.y) = pen)
            /\ last.out.face \in {"Left", "Right"} =>
                  (after.y = before.y /\ Abs(after.x - before.x) = pen)
            /\ SqrDistance(after, closest) >= SqrDistance(before, closest)

\* s is strictly ascending
Ascending(s) == \A i, j \in 1..Len(s) : i < j => s[i] < s[j]

\* C28 as stated: after any sequence of Create and Destroy calls Tick visits
\* the live entities in the order of their creation, ascending id, and in a
\* RunGame Update the collision pass begins when all of them have been ticked
C28_TickInCreationOrder ==
    last.op \in {"Tick", "UpdateRunGame"} =>
        /\ Range(last.out.ev.ticked) = Range(last.out.live)
        /\ Ascending(last.out.ev.ticked)
        /\ last.op = "UpdateRunGame" => last.out.ev.passAt = Len(last.out.live)

\* C28, amended: Tick visits every live entity once, in the order of the live
\* list m_gos, which is the order of creation as long as no Destroy has moved
\* the last entity into the place of a destroyed one; in a RunGame Update the
\* collision pass begins when all live entities have been ticked
C28_TickInListOrder ==
    last.op \in {"Tick", "UpdateRunGame"} =>
        /\ last.out.ok
        /\ last.out.ev.ticked = last.out.live
        /\ (last.op = "Tick" /\ \A i \in 1..Len(last.arg) : last.arg[i] = CREATE)
               => Ascending(last.out.ev.ticked)
        /\ last.op = "UpdateRunGame" =>
               /\ last.out.ev.passAt = Len(last.out.live)
               /\ Ascending(last.out.ev.ticked)

\* a Tick of two entities of which the younger stands first in the live list
C28_Witness ==
    /\ last.op = "Tick"
    /\ Len(last.out.live) = 2
    /\ last.out.live[1] > last.out.live[2]
    /\ last.out.ev.ticked = last.out.live

\* C29: with either AddComponent overload the component's owner is set before
\* its init hook runs and the component is appended afterwards: every init
\* hook has seen the entity as owner (here: registered it), and m_components,
\* which Tick walks from the front, holds the components in the order added
C29_OwnerBeforeInit ==
    last.op = "AddComponent" =>
        LET e == last.out.go
            w == last.out.w
            comps == w.mgr.heap[e].m_components
            seen == w.gs.collisionMgr.m_blocks
        IN  /\ w.ok /\ e # NULL
            /\ Len(comps) = Len(last.arg) /\ Len(seen) = Len(last.arg)
            /\ \A i \in 1..Len(last.arg) :
                  /\ seen[i].go = e
                  /\ comps[i].m_go = e
                  /\ comps[i].m_position = last.arg[i].c.m_position

\* the ids the headers of the store hold: those of the live entities and, on
\* the free list, those of the entities destroyed since the last reset
HeldIds(m) == { m.heap[h].m_id : h \in 1..Len(m.heap) }

\* C30: Create fails its assertion, and assigns nothing, when m_genId + 1 is
\* not below the u32 maximum; an id it does assign is the counter's value, has
\* not wrapped around, and is greater than every id assigned since the last
\* whole-store Destroy()
C30_NoWrappedId ==
    [][ last'.op = "Create" =>
          /\ last'.ok <=> goMgr.m_genId + 1 < U32Max
          /\ ~last'.ok => (aborted' /\ goMgr' = goMgr)
          /\ last'.ok =>
                /\ goMgr'.heap[last'.arg].m_id = goMgr.m_genId
                /\ goMgr'.m_genId = goMgr.m_genId + 1
                /\ goMgr'.m_genId < U32Max
                /\ \A id \in HeldIds(goMgr) : id < goMgr'.heap[last'.arg].m_id ]_vars

\* a Create found the counter at its limit and failed the assertion
C30_Witness ==
    /\ last.op = "Create" /\ ~last.ok /\ aborted
    /\ goMgr.m_genId = U32Max - 1
    /\ goMgr.m_gos # <<>>

\* C31: an Update that runs in RunGame finds the draw buffer empty, so the
\* frame drawn after it holds one request per component ticked in it and
\* nothing of an earlier frame, also after Escape to the menu and back and
\* after a scene reset
C31_BufferEmptyAtUpdate ==
    [][ /\ (pc' = "update" /\ ~aborted' /\ gs'.gameplayState = "RunGame") =>
              (dm'.m_textureItems = <<>> /\ dm'.m_fontItems = <<>>)
        /\ (last'.op = "Draw" /\ last.op = "Update" /\ gs.gameplayState = "RunGame") =>
              Len(last'.out) = Len(last.ev.ticked) ]_vars

\* C32: while a scene exists (from InitScene to the next DestroyScene),
\* hitScore plus the number of entries of the block registry is the map's
\* GetBlocksNum(), and hitScore is never above GetBlocksNum()
C32_ScorePlusRegistry ==
    (gs.map.loaded /\ ~aborted) =>
        /\ gs.hitScore + Len(gs.collisionMgr.m_blocks) = gs.map.m_blocksNum
        /\ gs.hitScore <= gs.map.m_blocksNum

\* an Update in which the ball hit a block while another block is still there
C32_Witness ==
    /\ last.op = "Update" /\ last.ev.blockHits = 1
    /\ gs.map.loaded
    /\ gs.hitScore >= 1
    /\ gs.collisionMgr.m_blocks # <<>>

\* C33: RemoveBlock(go) and Destroy(go) for an entity that is in neither the
\* block registry nor the live list leave both as they were; RemoveBlock on an
\* empty registry changes nothing
C33_UntrackedIsNoOp ==
    last.op = "Untracked" =>
        /\ last.out.after.gs.collisionMgr.m_blocks = last.out.before.gs.collisionMgr.m_blocks
        /\ last.out.after.mgr.m_gos = last.out.before.mgr.m_gos

\* the entities reached from go over the next pointers, n of them at most
RECURSIVE FreeChain(_, _, _)
FreeChain(m, go, n) ==
    IF go = NULL \/ n = 0 THEN <<>>
    ELSE <<go>> \o FreeChain(m, m.heap[go].m_next, n - 1)

NoRepeat(s) == \A i, j \in 1..Len(s) : i # j => s[i] # s[j]

\* C34: with Destroy(go) called on live entities only, every header allocated
\* since the last whole-store reset is in exactly one of the live list and the
\* free list, the free list ends (no cycle), and neither list holds an entity twice
C34_LiveOrFree ==
    LET free == FreeChain(goMgr, goMgr.m_firstFree, Len(goMgr.heap) + 1)
    IN  pc = "store" =>
           /\ Len(free) <= Len(goMgr.heap)
           /\ NoRepeat(free)
           /\ NoRepeat(goMgr.m_gos)
           /\ Range(free) \cap Range(goMgr.m_gos) = {}
           /\ Range(free) \cup Range(goMgr.m_gos) = 1..Len(goMgr.heap)

\* two headers on the free list and one entity live, after a Destroy
C34_Witness ==
    /\ pc = "store" /\ last.op = "DestroyGo"
    /\ Len(FreeChain(goMgr, goMgr.m_firstFree, Len(goMgr.heap) + 1)) = 2
    /\ Len(goMgr.m_gos) = 1

\* C35: what an Update in RunGame leaves as state: PreGameWin when hitScore
\* is GetBlocksNum() at its end, whatever else happened; otherwise PreGameOver
\* when the ball fell, Escape or not; otherwise RunMenu when Escape was
\* pressed; otherwise RunGame
C35_OutcomePriority ==
    [][ (last'.op = "Update" /\ last'.ok /\ gs.gameplayState = "RunGame") =>
          gs'.gameplayState =
              IF gs'.hitScore = gs'.map.m_blocksNum THEN "PreGameWin"
              ELSE IF last'.ev.fell THEN "PreGameOver"
              ELSE IF last'.in.esc THEN "RunMenu"
              ELSE "RunGame" ]_vars

\* the last block was hit in an Update in which Escape was pressed
C35_Witness ==
    /\ last.op = "Update" /\ last.in.esc /\ last.ev.blockHits = 1
    /\ gs.hitScore = gs.map.m_blocksNum
    /\ gs.gameplayState = "PreGameWin"

\* C36: while a scene exists the entities g_gameState.player and
\* g_gameState.ball are in the live list, each with its component: the
\* collision pass destroys block entities only
C36_PlayerAndBallLive ==
    (gs.map.loaded /\ ~aborted) =>
        /\ gs.player # NULL /\ gs.ball # NULL /\ gs.player # gs.ball
        /\ gs.player \in Range(goMgr.m_gos)
        /\ gs.ball \in Range(goMgr.m_gos)
        /\ GetComponent(goMgr.heap[gs.player], "PlayerComponent") # 0
        /\ GetComponent(goMgr.heap[gs.ball], "BallComponent") # 0
        /\ \A go \in Range(goMgr.m_gos) \ {gs.player, gs.ball} :
              GetComponent(goMgr.heap[go], "BlockComponent") # 0

\* the game goes on in RunGame after the collision pass has destroyed a block
C36_Witness ==
    /\ last.op = "Update" /\ last.ev.blockHits = 1
    /\ gs.gameplayState = "RunGame"
    /\ Len(goMgr.m_gos) = 3
    /\ gs.player \in Range(goMgr.m_gos) /\ gs.ball \in Range(goMgr.m_gos)

\* m_state of the scene's ball in store m and game state g
BallStateOf(m, g) ==
    m.heap[g.ball].m_components[GetComponent(m.heap[g.ball], "BallComponent")].m_state

\* the entries of the ball registry of g that name its ball
Registered(g) ==
    { k \in 1..Len(g.collisionMgr.m_balls) : g.collisionMgr.m_balls[k].go = g.ball }

\* C37: the scene's ball is in the ball registry exactly when it is Launched,
\* and then once, and the registry holds nothing else; a Launched ball stays
\* Launched and registered until the scene is replaced, also when Launch is
\* called again; an Update that leaves the ball Attached had no paddle or
\* block collision
C37_RegisteredIffLaunched ==
    [][ (gs'.map.loaded /\ ~aborted') =>
          /\ BallStateOf(goMgr', gs') \in {"Attached", "Launched"}
          /\ BallStateOf(goMgr', gs') = "Launched" <=> Registered(gs') # {}
          /\ Len(gs'.collisionMgr.m_balls) = Cardinality(Registered(gs'))
          /\ Cardinality(Registered(gs')) <= 1
          /\ (last'.op = "Update" /\ ~last'.ev.reset /\ gs.map.loaded
                /\ BallStateOf(goMgr, gs) = "Launched") =>
                 /\ BallStateOf(goMgr', gs') = "Launched"
                 /\ gs'.ball = gs.ball
                 /\ ~last'.ev.launched
          /\ (last'.op = "Update" /\ BallStateOf(goMgr', gs') = "Attached") =>
                 (last'.ev.paddleHits = 0 /\ last'.ev.blockHits = 0) ]_vars

\* Space was pressed in RunGame while the ball was already Launched
C37_Witness ==
    /\ last.op = "Update" /\ last.in.space /\ ~last.ev.launched
    /\ last.ev.ticked # <<>>
    /\ gs.map.loaded
    /\ BallStateOf(goMgr, gs) = "Launched"
    /\ Len(gs.collisionMgr.m_balls) = 1

\* C38: an Update in RunMenu, PreGameOver or PreGameWin, or in GameOver or
\* GameWin while the reset time has not elapsed, ticks no entity and runs no
\* collision pass: the store with its live list and every component (position,
\* launch state), both registries and hitScore are as before
C38_IdleUpdate ==
    [][ (/\ last'.op = "Update" /\ last'.ok
         /\ gs.gameplayState \in {"RunMenu", "PreGameOver", "PreGameWin", "GameOver", "GameWin"}
         /\ ~last'.ev.reset) =>
          /\ last'.ev.ticked = <<>>
          /\ last'.ev.passAt = -1
          /\ goMgr' = goMgr
          /\ gs'.collisionMgr = gs.collisionMgr
          /\ gs'.hitScore = gs.hitScore
          /\ gs'.player = gs.player /\ gs'.ball = gs.ball ]_vars

\* an Update in GameOver before the reset, after a game with a block hit: it
\* has put the result message on the frozen frame
C38_Witness ==
    /\ last.op = "Update" /\ ~last.ev.reset
    /\ gs.gameplayState = "GameOver"
    /\ dm.m_fontItems # <<>>
    /\ gs.hitScore = 1
    /\ BallStateOf(goMgr, gs) = "Launched"

\* p is inside the box or on its boundary
InBox(aabb, p) ==
    /\ Abs(p.x - aabb.center.x) <= aabb.halfExtents.x
    /\ Abs(p.y - aabb.center.y) <= aabb.halfExtents.y

\* the box of a registry entry
BoxOf(block) ==
    [center |-> Vec(block.bounds.x, block.bounds.y),
     halfExtents |-> Vec(block.bounds.width, block.bounds.height)]

\* the registry entries of w whose box holds the centre of a ball at spot
Holding(w, spot) ==
    { k \in 1..Len(w.gs.collisionMgr.m_blocks) :
        InBox(BoxOf(w.gs.collisionMgr.m_blocks[k]), Vec(spot.x + 32, spot.y + 32)) }

\* C39: for a circle whose centre is inside a block's box or on its boundary
\* AABBvsCircle gives a zero separation, penetration = radius and collides;
\* ResolveBlockCollision then finds no face and leaves position and velocity
\* as they are, while the Update still counts the hit and removes and destroys
\* the block
C39_CentreInsideBox ==
    /\ (last.op = "AABBvsCircle" /\ InBox(last.arg.aabb, last.arg.circle.center)) =>
          /\ last.out.diff = Vec(0, 0)
          /\ last.out.penetration = last.arg.circle.radius
          /\ last.out.collides
    /\ (last.op = "ResolveBlockCollision" /\ InBox(last.arg.aabb, last.arg.circle.center)) =>
          /\ last.out.face = "None"
          /\ last.out.ball = BallAt(last.arg.circle)
          /\ last.out.m_velocity = last.arg.m_velocity
    /\ (last.op = "UpdateRunGame" /\ last.arg.space
           /\ Holding(last.out.before, last.arg.spot) # {}) =>
          LET hit == last.out.before.gs.collisionMgr.m_blocks[
                         CHOOSE k \in Holding(last.out.before, last.arg.spot) :
                            \A j \in Holding(last.out.before, last.arg.spot) : k <= j].go
              after == last.out.after
          IN  /\ last.out.ev.blockHits = 1
              /\ after.gs.hitScore = 1
              /\ \A k \in 1..Len(after.gs.collisionMgr.m_blocks) :
                    after.gs.collisionMgr.m_blocks[k].go # hit
              /\ Len(after.gs.collisionMgr.m_blocks)
                    = Len(last.out.before.gs.collisionMgr.m_blocks) - 1
              /\ hit \notin Range(after.mgr.m_gos)
              /\ after.mgr.m_firstFree = hit
              /\ BallStateOf(after.mgr, after.gs) = "Launched"
              /\ after.mgr.heap[after.gs.ball].m_components[1].m_position = last.arg.spot

\* an Update whose launched ball has its centre on the lower face of a block
C39_Witness ==
    /\ last.op = "UpdateRunGame" /\ last.arg.space
    /\ Holding(last.out.before, last.arg.spot) # {}
    /\ last.arg.spot.y = TileY + 32
    /\ last.out.ev.blockHits = 1

\* the cursor one place further down, the first place after the last
CursorBelow(c) == IF c = Len(MenuOptions) - 1 THEN 0 ELSE c + 1

\* the cursor one place further up, the last place before the first
CursorAbove(c) == IF c = 0 THEN Len(MenuOptions) - 1 ELSE c - 1

\* C40: in every state the menu cursor is in [0, number of options) and
\* selectedOption is options[cursor]; Down then Up, and Up then Down, applied
\* to the menu give the same cursor back; an Update in RunMenu with only Down
\* pressed moves the cursor one place down (from the last option to 0), with
\* only Up pressed one place up (from 0 to the last option), and with both
\* pressed (Down, then Up) or neither leaves it where it was
C40_MenuCursor ==
    [][ /\ gs'.menu.cursor \in 0..(Len(MenuOptions) - 1)
        /\ gs'.menu.selectedOption = MenuOptions[gs'.menu.cursor + 1]
        /\ MenuUp(MenuDown(gs'.menu)).cursor = gs'.menu.cursor
        /\ MenuDown(MenuUp(gs'.menu)).cursor = gs'.menu.cursor
        /\ (pc = "update" /\ last'.op = "Update" /\ gs.gameplayState = "RunMenu") =>
              gs'.menu.cursor =
                 IF last'.in.down /\ ~last'.in.up THEN CursorBelow(gs.menu.cursor)
                 ELSE IF last'.in.up /\ ~last'.in.down THEN CursorAbove(gs.menu.cursor)
                 ELSE gs.menu.cursor ]_vars

\* an Update in the menu with Up alone has gone from the first option to the
\* last one, which Enter then selected
C40_Witness ==
    /\ last.op = "Update" /\ last.ok
    /\ last.in.up /\ ~last.in.down /\ last.in.enter
    /\ gs.menu.cursor = Len(MenuOptions) - 1
    /\ gs.menu.selectedOption = QUIT
    /\ gs.gameplayState = "Quit"

====
